---- MODULE Spec2Model ----
(***************************************************************************)
(* Verification model of the anomaly-detection pipeline:                   *)
(*   backend/knowledge_graph/graph_manager.py  (KnowledgeGraphManager)     *)
(*   backend/agents/coordinator_agent.py       (CoordinatorAgent,          *)
(*                                              AgentOrchestrator)         *)
(*   backend/agents/*_agent.py                 (the four agents)           *)
(*   backend/explainability/narrative_generator.py                         *)
(*                                                                         *)
(* Units.  A datetime is an integer number of milliseconds.  An agent's    *)
(* confidence is an integer number of 1/300, its severity score an integer *)
(* number of 1/3000, a weight and an edge confidence an integer number of  *)
(* hundredths.  Averages (consensus_score, a report's severity_score) are  *)
(* exact fractions [num, den] in lowest terms, compared by                 *)
(* cross-multiplication; floating-point rounding is not modelled.          *)
(***************************************************************************)
EXTENDS Integers, Sequences, FiniteSets, TLC

VARIABLES
    cycles,         \* analyze cycles started so far
    kg,             \* KnowledgeGraphManager: graph, node_timestamps, signatures
    last,           \* the most recent KnowledgeGraphManager call and what it did
    calls,          \* number of KnowledgeGraphManager calls made so far
    added,          \* history: the <<id, timestamp>> pairs passed to add_anomaly
    distinct,       \* history: ids and timestamps added so far pairwise distinct
    now,            \* the wall clock read by datetime.now()
    pc,             \* position of the analyze cycle in flight
    cur,            \* current_data of the cycle in flight
    hist,           \* historical_data of the cycle in flight
    failing,        \* agents whose analyze raises in the cycle in flight
    agent_results,  \* what asyncio.gather returned
    final,          \* what AgentOrchestrator.analyze returned (or that it raised)
    prev,           \* input and result of the cycle before
    alt_results,    \* a permutation of agent_results
    alt_final,      \* CoordinatorAgent.synthesize applied to alt_results
    fn_args,        \* arguments of the function under study
    fn_result,      \* what the function under study returned for fn_args
    tasks,          \* the coroutines in flight on the event loop, by name
    running,        \* the coroutine the event loop is executing, if any
    limiter         \* the RateLimiter: its calls list, and every call ever recorded

vars == <<cycles, kg, last, calls, added, distinct, now, pc, cur, hist, failing,
          agent_results, final, prev, alt_results, alt_final, fn_args, fn_result,
          tasks, running, limiter>>

cycle_vars == <<cycles, pc, cur, hist, failing, agent_results, final, prev>>

alt_vars == <<alt_results, alt_final>>

loop_vars == <<tasks, running, limiter>>

api_vars == <<last, calls, added, distinct>>

fn_vars == <<fn_args, fn_result>>

(***************************************************************************)
(* Generic helpers: Python dict / list idioms.                             *)
(***************************************************************************)

\* dict.get(key, default) on a key that may be absent
NoKey == "<absent>"

get(v, default) == IF v = NoKey THEN default ELSE v

\* the same for a numeric entry
NoNum == -1000000

getn(v, default) == IF v = NoNum THEN default ELSE v

\* exact fractions in lowest terms
RECURSIVE GCD(_, _)
GCD(a, b) == IF b = 0 THEN a ELSE GCD(b, a % b)

Frac(num, den) ==
    [num |-> num \div GCD(num, den), den |-> den \div GCD(num, den)]

FracGE(f, g) == f.num * g.den >= g.num * f.den

FracGT(f, g) == f.num * g.den > g.num * f.den

\* an absent fractional entry
NoFrac == [num |-> 0, den |-> 0]

getf(v, default) == IF v = NoFrac THEN default ELSE v

Range(s) == {s[i] : i \in 1..Len(s)}

Restrict(f, S) == [x \in S |-> f[x]]

Put(f, k, v) == [x \in (DOMAIN f) \cup {k} |-> IF x = k THEN v ELSE f[x]]

\* d[k] = v on an insertion-ordered dict kept as a sequence of <<key, value>>
DictSet(d, k, v) ==
    IF \E i \in 1..Len(d) : d[i][1] = k
    THEN [i \in 1..Len(d) |-> IF d[i][1] = k THEN <<k, v>> ELSE d[i]]
    ELSE Append(d, <<k, v>>)

DictKeys(d) == {d[i][1] : i \in 1..Len(d)}

\* sorted(items, key=lambda x: x[1]): stable, ascending
RECURSIVE InsertByTs(_, _)
InsertByTs(s, x) ==
    IF s = <<>> THEN <<x>>
    ELSE IF s[Len(s)][2] <= x[2] THEN Append(s, x)
    ELSE Append(InsertByTs(SubSeq(s, 1, Len(s) - 1), x), s[Len(s)])

RECURSIVE SortedByTs(_)
SortedByTs(d) ==
    IF d = <<>> THEN <<>>
    ELSE InsertByTs(SortedByTs(SubSeq(d, 1, Len(d) - 1)), d[Len(d)])

(***************************************************************************)
(* KnowledgeGraphManager                                                   *)
(***************************************************************************)

\* knowledge_graph.max_nodes (1000 by default), scaled down
max_nodes == 2

EmptyGraph ==
    [nodes           |-> <<>>,
     edges           |-> <<>>,
     node_timestamps |-> <<>>,
     signatures      |-> <<>>]

NodeIds(g) == DOMAIN g.nodes

EdgeKeys(g) == DOMAIN g.edges

generate_signature(anomaly_data) ==
    [source       |-> get(anomaly_data.source, ""),
     metric       |-> get(anomaly_data.metric, ""),
     magnitude    |-> IF getn(anomaly_data.deviation, 0) < 0
                      THEN -getn(anomaly_data.deviation, 0)
                      ELSE getn(anomaly_data.deviation, 0),
     confidence   |-> getf(anomaly_data.confidence, Frac(1, 2)),
     pattern_type |-> get(anomaly_data.type, "unknown")]

\* networkx DiGraph.remove_node: the node and every edge incident to it
graph_remove_node_keeping_edges(g, id) ==
    [g EXCEPT !.nodes = Restrict(g.nodes, DOMAIN g.nodes \ {id})]

graph_remove_node(g, id) ==
    [g EXCEPT
        !.nodes = Restrict(g.nodes, DOMAIN g.nodes \ {id}),
        !.edges = Restrict(g.edges,
                           {e \in DOMAIN g.edges : e[1] # id /\ e[2] # id})]

\* the eviction loop without "del self.signatures[node_id]"
RECURSIVE EvictAll_keeping_signatures(_, _)
EvictAll_keeping_signatures(g, victims) ==
    IF victims = <<>> THEN g
    ELSE LET id == victims[1][1]
             g1 == graph_remove_node(g, id)
             g2 == [g1 EXCEPT
                      !.node_timestamps =
                          SelectSeq(g1.node_timestamps, LAMBDA p : p[1] # id)]
         IN EvictAll_keeping_signatures(g2, Tail(victims))

\* the body of the eviction loop, for the ids of sorted_nodes[:num_to_remove]
RECURSIVE EvictAll(_, _)
EvictAll(g, victims) ==
    IF victims = <<>> THEN g
    ELSE LET id == victims[1][1]
             g1 == graph_remove_node(g, id)
             g2 == [g1 EXCEPT
                      !.node_timestamps =
                          SelectSeq(g1.node_timestamps, LAMBDA p : p[1] # id),
                      !.signatures =
                          Restrict(g1.signatures, DOMAIN g1.signatures \ {id})]
         IN EvictAll(g2, Tail(victims))

cleanup_newest_nodes(g) ==
    IF Cardinality(NodeIds(g)) <= max_nodes THEN g
    ELSE LET sorted_nodes == SortedByTs(g.node_timestamps)
             num_to_remove == Cardinality(NodeIds(g)) - max_nodes
         IN EvictAll(g, SubSeq(sorted_nodes,
                               Len(sorted_nodes) - num_to_remove + 1,
                               Len(sorted_nodes)))

cleanup_one_short(g) ==
    IF Cardinality(NodeIds(g)) <= max_nodes + 1 THEN g
    ELSE LET sorted_nodes == SortedByTs(g.node_timestamps)
             num_to_remove == Cardinality(NodeIds(g)) - max_nodes
         IN EvictAll(g, SubSeq(sorted_nodes, 1, num_to_remove))

cleanup_old_nodes(g) ==
    IF Cardinality(NodeIds(g)) <= max_nodes THEN g
    ELSE LET sorted_nodes == SortedByTs(g.node_timestamps)
             num_to_remove == Cardinality(NodeIds(g)) - max_nodes
         IN EvictAll(g, SubSeq(sorted_nodes, 1, num_to_remove))

\* timestamp=None is written NoTs; it reads the wall clock
NoTs == -1

add_anomaly(g, anomaly_id, anomaly_data, timestamp, clock) ==
    LET ts == IF timestamp = NoTs THEN clock ELSE timestamp
        node_attrs ==
            [id         |-> anomaly_id,
             timestamp  |-> ts,
             source     |-> get(anomaly_data.source, "unknown"),
             metric     |-> get(anomaly_data.metric, "unknown"),
             confidence |-> getf(anomaly_data.confidence, Frac(1, 2)),
             severity   |-> get(anomaly_data.severity, "medium")]
        g1 == [g EXCEPT
                 !.nodes = Put(g.nodes, anomaly_id, node_attrs),
                 !.node_timestamps = DictSet(g.node_timestamps, anomaly_id, ts),
                 !.signatures = Put(g.signatures, anomaly_id,
                                    generate_signature(anomaly_data))]
    IN cleanup_old_nodes(g1)

add_relationship_unguarded(g, from_anomaly, to_anomaly, relationship_type, confidence, metadata, clock) ==
    [g EXCEPT !.edges = Put(g.edges, <<from_anomaly, to_anomaly>>,
                            [type       |-> relationship_type,
                             confidence |-> confidence,
                             created_at |-> clock,
                             metadata   |-> metadata])]

add_relationship(g, from_anomaly, to_anomaly, relationship_type, confidence, metadata, clock) ==
    IF from_anomaly \notin NodeIds(g) \/ to_anomaly \notin NodeIds(g)
    THEN g
    ELSE [g EXCEPT !.edges = Put(g.edges, <<from_anomaly, to_anomaly>>,
                                 [type       |-> relationship_type,
                                  confidence |-> confidence,
                                  created_at |-> clock,
                                  metadata   |-> metadata])]

\* metadata=None, stored as {}
NoMetadata == [time_diff_seconds |-> NoTs]

(***************************************************************************)
(* Units and configuration defaults                                        *)
(***************************************************************************)

\* one second and one minute, in milliseconds
MsPerSecond == 1000

MsPerMinute == 60000

\* datetime.replace(second=0, microsecond=0)
TruncateToMinute(ts) == (ts \div MsPerMinute) * MsPerMinute

\* datetime.strftime('%Y%m%d_%H%M%S'): the seconds, without the fraction
FormatSeconds(ts) == ts \div MsPerSecond

\* confidence 1.0, in the unit of confidences (1/300)
ConfOne == 300

\* severity score 1.0, in the unit of severity scores (1/3000)
SevOne == 3000

\* agents.<name>.weight defaults, in hundredths
StatisticalWeight == 25

TemporalWeight == 25

CorrelationWeight == 20

ContextWeight == 15

\* agents.<name>.min_confidence defaults, in 1/300
StatisticalMinConfidence == 150

TemporalMinConfidence == 150

CorrelationMinConfidence == 180

ContextMinConfidence == 120

\* agents.coordinator.consensus_threshold default 0.6, in 1/300
consensus_threshold == 180

Min(a, b) == IF a < b THEN a ELSE b

Abs(a) == IF a < 0 THEN -a ELSE a

\* calculate_severity(confidence, deviation_magnitude, impact_scope), is_novel
\* left False as every caller does; deviation_magnitude is given in tenths
severity_score_of(confidence, deviation_tenths, impact_scope) ==
    Min(4 * confidence
          + 9 * Min(deviation_tenths, 100)
          + 120 * Min(impact_scope, 5),
        SevOne)

severity_label_of(score) ==
    IF score >= 2700 THEN "critical"
    ELSE IF score >= 2250 THEN "high"
    ELSE IF score >= 1500 THEN "medium"
    ELSE "low"

(***************************************************************************)
(* Data points and agent anomalies.                                        *)
(*                                                                         *)
(* A data point is [source, metric, value, timestamp] plus three fields    *)
(* that stand for the numerics of the detector library on the series the   *)
(* point belongs to: stat (confidence of the statistical ensemble's        *)
(* detection at this point, 0 for none), temp (confidence of a temporal    *)
(* detector's detection at this point, 0 for none) and brk (corr_change,   *)
(* in hundredths, of the correlation-break scan at this timestamp for the  *)
(* pairs whose first series is this point's, 0 for none).  A value is      *)
(* [kind, v] with kind "num", "none" (None) or "str".                      *)
(***************************************************************************)

Num(v) == [kind |-> "num", v |-> v]

NoneValue == [kind |-> "none", v |-> 0]

StrValue == [kind |-> "str", v |-> 0]

NoContext == [relevance |-> 0, timestamp |-> NoTs]

\* the keys every agent anomaly dictionary is given here; absent keys hold
\* NoKey / NoNum
Anomaly(agent, type, source, metric, ts, value, confidence, score, context) ==
    [agent          |-> agent,
     agent_name     |-> NoKey,
     agent_weight   |-> NoNum,
     type           |-> type,
     source         |-> source,
     metric         |-> metric,
     timestamp      |-> ts,
     value          |-> value,
     confidence     |-> confidence,
     severity       |-> severity_label_of(score),
     severity_score |-> score,
     context        |-> context]

PointKey(p) == <<p.source, p.metric>>

\* _group_data: the (source, metric) keys in order of first appearance
RECURSIVE KeysInOrder(_, _)
KeysInOrder(points, seen) ==
    IF points = <<>> THEN <<>>
    ELSE IF PointKey(points[1]) \in seen THEN KeysInOrder(Tail(points), seen)
    ELSE <<PointKey(points[1])>>
           \o KeysInOrder(Tail(points), seen \cup {PointKey(points[1])})

OfKey(points, key) == SelectSeq(points, LAMBDA p : PointKey(p) = key)

\* list.sort(key=lambda x: x['timestamp']) on data points: stable, ascending
RECURSIVE InsertPoint(_, _)
InsertPoint(s, x) ==
    IF s = <<>> THEN <<x>>
    ELSE IF s[Len(s)].timestamp <= x.timestamp THEN Append(s, x)
    ELSE Append(InsertPoint(SubSeq(s, 1, Len(s) - 1), x), s[Len(s)])

RECURSIVE SortPoints(_)
SortPoints(s) ==
    IF s = <<>> THEN <<>>
    ELSE InsertPoint(SortPoints(SubSeq(s, 1, Len(s) - 1)), s[Len(s)])

RECURSIVE Concat(_)
Concat(ss) == IF ss = <<>> THEN <<>> ELSE ss[1] \o Concat(Tail(ss))

MapSeq(s, F(_)) == [i \in 1..Len(s) |-> F(s[i])]

MinTs(points) ==
    CHOOSE t \in {points[i].timestamp : i \in 1..Len(points)} :
        \A j \in 1..Len(points) : t <= points[j].timestamp

(***************************************************************************)
(* StatisticalAgent                                                        *)
(***************************************************************************)

\* the ensemble detection carries no 'deviation' key: deviation_magnitude 0
statistical_anomaly(p) ==
    Anomaly("StatisticalAgent", NoKey, p.source, p.metric, p.timestamp,
            p.value, p.stat, severity_score_of(p.stat, 0, 1), NoContext)

statistical_analyze(data_points) ==
    LET keys == KeysInOrder(data_points, {})
        detected(key) ==
            SelectSeq(OfKey(data_points, key),
                      LAMBDA p : p.stat > 0 /\ p.stat >= StatisticalMinConfidence)
    IN [agent     |-> "StatisticalAgent",
        weight    |-> StatisticalWeight,
        anomalies |-> Concat(MapSeq(keys,
                        LAMBDA k : MapSeq(detected(k), statistical_anomaly)))]

(***************************************************************************)
(* TemporalAgent                                                           *)
(***************************************************************************)

\* TemporalAgent._is_recent / CorrelationAgent._is_recent (the timestamp of a
\* detection is never None: every detector copies it from the series)
is_recent(ts, current_data) ==
    IF current_data = <<>> THEN TRUE
    ELSE ts >= MinTs(current_data)

\* deviation_magnitude is abs(detection.get('change_magnitude', 0)): only a
\* change-point detection carries that key, the flagged points here do not
temporal_anomaly(p) ==
    Anomaly("TemporalAgent", NoKey, p.source, p.metric, p.timestamp,
            p.value, p.temp, severity_score_of(p.temp, 0, 1), NoContext)

temporal_analyze(data_points, historical_data) ==
    LET all_data == historical_data \o data_points
        keys == KeysInOrder(all_data, {})
        detected(key) ==
            SelectSeq(SortPoints(OfKey(all_data, key)),
                      LAMBDA p : /\ p.temp > 0
                                 /\ p.temp >= TemporalMinConfidence
                                 /\ is_recent(p.timestamp, data_points))
    IN [agent     |-> "TemporalAgent",
        weight    |-> TemporalWeight,
        anomalies |-> Concat(MapSeq(keys,
                        LAMBDA k : MapSeq(detected(k), temporal_anomaly)))]

(***************************************************************************)
(* CorrelationAgent                                                        *)
(***************************************************************************)

\* correlation.break_threshold default 0.3, in hundredths
break_threshold == 30

\* _detect_correlation_breaks, the anomaly built when the scan flags a point:
\* p.brk is corr_change in hundredths.  The dictionary has source1/metric1/
\* source2/metric2 but no 'source' and no 'metric' key, and its value is a
\* formatted string.
correlation_break_anomaly(p) ==
    LET confidence == Min((p.brk * ConfOne) \div break_threshold, ConfOne)
    IN Anomaly("CorrelationAgent", "correlation_break", NoKey, NoKey,
               p.timestamp, StrValue, confidence,
               severity_score_of(confidence, p.brk, 2), NoContext)

\* the pairs keys[i], keys[j] with i < j, in loop order
PairsInOrder(keys) ==
    LET n == Len(keys)
        idx == [k \in 1..(n * n) |-> <<((k - 1) \div n) + 1, ((k - 1) % n) + 1>>]
    IN SelectSeq(idx, LAMBDA ij : ij[1] < ij[2])

\* the scan runs over the timestamps the two series have in common
\* (_align_series), in ascending order
correlation_breaks(data_points, historical_data) ==
    LET all_data == historical_data \o data_points
        keys == KeysInOrder(all_data, {})
        aligned(p, key2) ==
            \E i \in 1..Len(all_data) :
                /\ PointKey(all_data[i]) = key2
                /\ all_data[i].timestamp = p.timestamp
        flagged(key1, key2) ==
            SelectSeq(SortPoints(OfKey(all_data, key1)),
                      LAMBDA p : /\ aligned(p, key2)
                                 /\ p.brk >= break_threshold
                                 /\ Min((p.brk * ConfOne) \div break_threshold, ConfOne)
                                       >= CorrelationMinConfidence
                                 /\ is_recent(p.timestamp, data_points))
    IN Concat(MapSeq(PairsInOrder(keys),
                     LAMBDA ij : MapSeq(flagged(keys[ij[1]], keys[ij[2]]),
                                        correlation_break_anomaly)))

\* the minute buckets of _detect_simultaneous_anomalies, in order of first
\* appearance
RECURSIVE MinutesInOrder(_, _)
MinutesInOrder(points, seen) ==
    IF points = <<>> THEN <<>>
    ELSE LET m == TruncateToMinute(points[1].timestamp)
         IN IF m \in seen THEN MinutesInOrder(Tail(points), seen)
            ELSE <<m>> \o MinutesInOrder(Tail(points), seen \cup {m})

simultaneous_anomalies(data_points) ==
    LET bucket(m) ==
            SelectSeq(data_points, LAMBDA p : TruncateToMinute(p.timestamp) = m)
        sources(m) == {bucket(m)[i].source : i \in 1..Len(bucket(m))}
        confidence(m) == Min((Cardinality(sources(m)) * ConfOne) \div 3, ConfOne)
        hit(m) == /\ Len(bucket(m)) >= 2
                  /\ Cardinality(sources(m)) >= 2
                  /\ confidence(m) >= CorrelationMinConfidence
        anomaly(m) ==
            Anomaly("CorrelationAgent", "simultaneous_anomaly",
                    "multi-source", "correlation", m, NoneValue, confidence(m),
                    severity_score_of(confidence(m), 50, Cardinality(sources(m))),
                    NoContext)
    IN MapSeq(SelectSeq(MinutesInOrder(data_points, {}), hit), anomaly)

correlation_analyze(data_points, historical_data) ==
    [agent     |-> "CorrelationAgent",
     weight    |-> CorrelationWeight,
     anomalies |-> correlation_breaks(data_points, historical_data)
                     \o simultaneous_anomalies(data_points)]

(***************************************************************************)
(* ContextAgent                                                            *)
(***************************************************************************)

RECURSIVE SourcesInOrder(_, _)
SourcesInOrder(points, seen) ==
    IF points = <<>> THEN <<>>
    ELSE IF points[1].source \in seen THEN SourcesInOrder(Tail(points), seen)
    ELSE <<points[1].source>>
           \o SourcesInOrder(Tail(points), seen \cup {points[1].source})

RECURSIVE SumValues(_)
SumValues(points) ==
    IF points = <<>> THEN 0 ELSE points[1].value.v + SumValues(Tail(points))

MaxValue(points) ==
    CHOOSE v \in {points[i].value.v : i \in 1..Len(points)} :
        \A j \in 1..Len(points) : v >= points[j].value.v

MinValue(points) ==
    CHOOSE v \in {points[i].value.v : i \in 1..Len(points)} :
        \A j \in 1..Len(points) : v <= points[j].value.v

\* deviation = (max - avg) / (avg if avg != 0 else 1) > 2, without fractions
crypto_deviation_above_2(points) ==
    LET n == Len(points)
        total == SumValues(points)
        top == MaxValue(points)
    IN IF total = 0 THEN top > 2
       ELSE IF total > 0 THEN top * n - total > 2 * total
       ELSE top * n - total < 2 * total

\* ContextAgent._fetch_context: the relevance, or NoNum for "return None";
\* the context dictionary is stamped with datetime.now()
fetch_context(source, points, clock) ==
    LET temps == SelectSeq(points, LAMBDA p : p.metric = "temperature")
        relevance ==
            IF source = "cryptocurrency"
            THEN (IF crypto_deviation_above_2(points) THEN 225 ELSE 120)
            ELSE IF source = "weather"
            THEN (IF temps # <<>> /\ (MaxValue(temps) > 30 \/ MinValue(temps) < 0)
                  THEN 210 ELSE 90)
            ELSE IF source = "github" THEN 150
            ELSE NoNum
    IN [relevance |-> relevance, timestamp |-> clock]

\* max(points, key=lambda p: abs(p['value'])): the first of the largest
MostExtreme(points) ==
    LET i == CHOOSE i \in 1..Len(points) :
                 /\ \A j \in 1..Len(points) :
                        Abs(points[i].value.v) >= Abs(points[j].value.v)
                 /\ \A j \in 1..(i - 1) :
                        Abs(points[j].value.v) < Abs(points[i].value.v)
    IN points[i]

context_analyze(data_points, clock) ==
    LET sources == SourcesInOrder(data_points, {})
        of(src) == SelectSeq(data_points, LAMBDA p : p.source = src)
        relevant(src) ==
            LET context == fetch_context(src, of(src), clock)
            IN context.relevance # NoNum
               /\ context.relevance >= ContextMinConfidence
        anomaly(src) ==
            LET context == fetch_context(src, of(src), clock)
                rep == MostExtreme(of(src))
            IN Anomaly("ContextAgent", NoKey, src, rep.metric, rep.timestamp,
                       rep.value, context.relevance, SevOne \div 2, context)
    IN [agent     |-> "ContextAgent",
        weight    |-> ContextWeight,
        anomalies |-> MapSeq(SelectSeq(sources, relevant), anomaly)]

(***************************************************************************)
(* CoordinatorAgent                                                        *)
(***************************************************************************)

\* Python's None where a key is present and holds it
PyNone == "None"

\* the loop that stamps agent_name / agent_weight on every anomaly
all_anomalies_of(results) ==
    Concat(MapSeq(results,
        LAMBDA result :
            MapSeq(result.anomalies,
                   LAMBDA a : [a EXCEPT !.agent_name = result.agent,
                                        !.agent_weight = result.weight])))

\* the grouping key of _group_similar_anomalies
GroupKey(a) ==
    <<get(a.source, "unknown"), get(a.metric, "unknown"),
      TruncateToMinute(a.timestamp)>>

RECURSIVE GroupKeysInOrder(_, _)
GroupKeysInOrder(anomalies, seen) ==
    IF anomalies = <<>> THEN <<>>
    ELSE IF GroupKey(anomalies[1]) \in seen
    THEN GroupKeysInOrder(Tail(anomalies), seen)
    ELSE <<GroupKey(anomalies[1])>>
           \o GroupKeysInOrder(Tail(anomalies), seen \cup {GroupKey(anomalies[1])})

group_similar_anomalies(anomalies) ==
    MapSeq(GroupKeysInOrder(anomalies, {}),
           LAMBDA k : SelectSeq(anomalies, LAMBDA a : GroupKey(a) = k))

RECURSIVE SumSeq(_)
SumSeq(s) == IF s = <<>> THEN 0 ELSE s[1] + SumSeq(Tail(s))

SumOver(s, F(_)) == SumSeq(MapSeq(s, F))

\* weighted_average(agent_confidences, agent_weights), as a fraction of 1
weighted_average(group) ==
    LET total_weight == SumOver(group, LAMBDA a : a.agent_weight)
    IN IF group = <<>> \/ total_weight = 0 THEN Frac(0, 1)
       ELSE Frac(SumOver(group, LAMBDA a : a.confidence * a.agent_weight),
                 ConfOne * total_weight)

\* np.mean(severity_scores), as a fraction of 1
mean_severity(group) ==
    Frac(SumOver(group, LAMBDA a : a.severity_score), SevOne * Len(group))

severity_of(avg_severity_score) ==
    IF FracGE(avg_severity_score, Frac(9, 10)) THEN "critical"
    ELSE IF FracGE(avg_severity_score, Frac(3, 4)) THEN "high"
    ELSE IF FracGE(avg_severity_score, Frac(1, 2)) THEN "medium"
    ELSE "low"

\* max(anomaly_group, key=confidence): the first of the most confident
representative_of(group) ==
    LET i == CHOOSE i \in 1..Len(group) :
                 /\ \A j \in 1..Len(group) :
                        group[i].confidence >= group[j].confidence
                 /\ \A j \in 1..(i - 1) :
                        group[j].confidence < group[i].confidence
    IN group[i]

\* f"{source}_{metric}_{timestamp.strftime('%Y%m%d_%H%M%S')}", kept as the
\* triple of its parts
generate_anomaly_id(anomaly) ==
    <<get(anomaly.source, "unknown"), get(anomaly.metric, "unknown"),
      FormatSeconds(anomaly.timestamp)>>

\* NarrativeGenerator.generate at detail level "medium": None is handled,
\* f"{value:.2f}" raises on a string
narrative_raises(primary_anomaly) == primary_anomaly.value.kind = "str"

create_anomaly_report(group, clock) ==
    LET representative == representative_of(group)
        avg_severity_score == mean_severity(group)
    IN [anomaly_id       |-> generate_anomaly_id(representative),
        source           |-> IF representative.source = NoKey THEN PyNone
                             ELSE representative.source,
        metric           |-> IF representative.metric = NoKey THEN PyNone
                             ELSE representative.metric,
        timestamp        |-> representative.timestamp,
        value            |-> representative.value,
        consensus_score  |-> weighted_average(group),
        severity         |-> severity_of(avg_severity_score),
        severity_score   |-> avg_severity_score,
        detection_count  |-> Len(group),
        detecting_agents |-> {group[i].agent_name : i \in 1..Len(group)},
        individual_detections |-> group,
        created_at       |-> clock]

\* final_reports.sort(key=(severity_score, consensus_score), reverse=True):
\* stable, descending
ReportKeyLess(r1, r2) ==
    \/ FracGT(r2.severity_score, r1.severity_score)
    \/ /\ r1.severity_score = r2.severity_score
       /\ FracGT(r2.consensus_score, r1.consensus_score)

RECURSIVE InsertReport(_, _)
InsertReport(s, x) ==
    IF s = <<>> THEN <<x>>
    ELSE IF ~ReportKeyLess(s[Len(s)], x) THEN Append(s, x)
    ELSE Append(InsertReport(SubSeq(s, 1, Len(s) - 1), x), s[Len(s)])

RECURSIVE SortReports(_)
SortReports(s) ==
    IF s = <<>> THEN <<>>
    ELSE InsertReport(SortReports(SubSeq(s, 1, Len(s) - 1)), s[Len(s)])

add_to_knowledge_graph(g, report, clock) ==
    add_anomaly(g, report.anomaly_id,
                [source     |-> report.source,
                 metric     |-> report.metric,
                 deviation  |-> NoNum,
                 confidence |-> report.consensus_score,
                 severity   |-> report.severity,
                 type       |-> NoKey],
                report.timestamp, clock)

RECURSIVE AddAllToGraph(_, _, _)
AddAllToGraph(g, reports, clock) ==
    IF reports = <<>> THEN g
    ELSE AddAllToGraph(add_to_knowledge_graph(g, reports[1], clock),
                       Tail(reports), clock)

\* the causal edge without the bonus for a high first report (not the code's)
relate_without_bonus(g, report1, report2, clock) ==
    LET time_diff == Abs(report1.timestamp - report2.timestamp)
        g1 == IF time_diff <= 300 * MsPerSecond
              THEN add_relationship(g, report1.anomaly_id, report2.anomaly_id,
                                    "temporal", 70, NoMetadata, clock)
              ELSE g
        g2 == IF report1.source = report2.source
              THEN add_relationship(g1, report1.anomaly_id, report2.anomaly_id,
                                    "correlation", 60, NoMetadata, clock)
              ELSE g1
    IN IF report1.timestamp < report2.timestamp /\ time_diff <= 600 * MsPerSecond
       THEN add_relationship(g2, report1.anomaly_id, report2.anomaly_id, "causal",
                             50, [time_diff_seconds |-> time_diff], clock)
       ELSE g2

\* the body of the inner loop of _detect_relationships for one pair
relate(g, report1, report2, clock) ==
    LET time_diff == Abs(report1.timestamp - report2.timestamp)
        g1 == IF time_diff <= 300 * MsPerSecond
              THEN add_relationship(g, report1.anomaly_id, report2.anomaly_id,
                                    "temporal", 70, NoMetadata, clock)
              ELSE g
        g2 == IF report1.source = report2.source
              THEN add_relationship(g1, report1.anomaly_id, report2.anomaly_id,
                                    "correlation", 60, NoMetadata, clock)
              ELSE g1
    IN IF report1.timestamp < report2.timestamp /\ time_diff <= 600 * MsPerSecond
       THEN add_relationship(g2, report1.anomaly_id, report2.anomaly_id, "causal",
                             50 + (IF report1.severity = "high" THEN 30 ELSE 0),
                             [time_diff_seconds |-> time_diff], clock)
       ELSE g2

RECURSIVE RelateAll(_, _, _, _)
RelateAll(g, reports, pairs, clock) ==
    IF pairs = <<>> THEN g
    ELSE RelateAll(relate(g, reports[pairs[1][1]], reports[pairs[1][2]], clock),
                   reports, Tail(pairs), clock)

detect_relationships(g, reports, clock) ==
    RelateAll(g, reports, PairsInOrder([i \in 1..Len(reports) |-> i]), clock)

\* report['consensus_score'] > self.consensus_threshold
accepts_strictly(report) ==
    FracGT(report.consensus_score, Frac(consensus_threshold, ConfOne))

\* report['consensus_score'] >= self.consensus_threshold
accepts(report) ==
    FracGE(report.consensus_score, Frac(consensus_threshold, ConfOne))

\* CoordinatorAgent.synthesize: whether it raises, what it returns, and the
\* knowledge graph it leaves
synthesize(results, g, clock) ==
    LET all_anomalies == all_anomalies_of(results)
        grouped_anomalies == group_similar_anomalies(all_anomalies)
        raises == \E i \in 1..Len(grouped_anomalies) :
                      narrative_raises(representative_of(grouped_anomalies[i]))
        reports == MapSeq(grouped_anomalies,
                          LAMBDA group : create_anomaly_report(group, clock))
        final_reports ==
            SortReports(SelectSeq(reports, accepts))
        g1 == detect_relationships(AddAllToGraph(g, final_reports, clock),
                                   final_reports, clock)
    IN IF raises
       THEN [raised |-> TRUE, kg |-> g, result |-> [status |-> "synthesize raised"]]
       ELSE [raised |-> FALSE, kg |-> g1,
             result |->
               [status              |-> "returned",
                total_anomalies     |-> Len(final_reports),
                high_severity_count |->
                    Len(SelectSeq(final_reports,
                          LAMBDA r : r.severity \in {"high", "critical"})),
                reports             |-> final_reports,
                agents_consulted    |-> MapSeq(results, LAMBDA r : r.agent),
                total_detections    |-> Len(all_anomalies)]]

(***************************************************************************)
(* Spec: any sequence of KnowledgeGraphManager.add_anomaly and             *)
(* add_relationship calls on one graph.                                    *)
(***************************************************************************)

\* calls made on one graph
MaxCalls == 4

AnomalyIds == {"n1", "n2", "n3", "n4"}

Times == {1000, 2000, 3000}

EdgeTypes == {"temporal", "causal"}

\* anomaly_data dictionaries handed to add_anomaly
GraphData ==
    {[source |-> "weather", metric |-> "temperature", deviation |-> NoNum,
      confidence |-> Frac(7, 10), severity |-> "high", type |-> NoKey]}

Idle ==
    /\ cycles = 0
    /\ pc = "idle"
    /\ cur = <<>>
    /\ hist = <<>>
    /\ failing = {}
    /\ agent_results = <<>>
    /\ final = [status |-> "none"]
    /\ prev = [status |-> "none"]
    /\ alt_results = <<>>
    /\ alt_final = [status |-> "none"]
    /\ tasks = <<>>
    /\ running = NoKey
    /\ limiter = [calls |-> <<>>, recorded |-> <<>>, answers |-> <<>>]

\* a fresh orchestrator: empty graph, no call made, no cycle run
Fresh ==
    /\ kg = EmptyGraph
    /\ last = [op |-> "none", missing |-> FALSE, evicted |-> FALSE, dropped |-> FALSE]
    /\ calls = 0
    /\ added = {}
    /\ distinct = TRUE
    /\ now = 100000
    /\ Idle

Init ==
    /\ Fresh
    /\ fn_args = <<>>
    /\ fn_result = <<>>

AddAnomaly ==
    \E id \in AnomalyIds, ts \in Times \cup {NoTs}, data \in GraphData :
        LET g  == add_anomaly(kg, id, data, ts, now)
            at == IF ts = NoTs THEN now ELSE ts
            ok == /\ distinct
                  /\ \A p \in added : p[1] # id /\ p[2] # at
        IN /\ calls < MaxCalls
           /\ calls' = calls + 1
           /\ kg' = g
           /\ last' = [op      |-> "add_anomaly",
                       missing |-> FALSE,
                       evicted |-> (NodeIds(kg) \cup {id}) \ NodeIds(g) # {},
                       dropped |-> EdgeKeys(kg) \ EdgeKeys(g) # {}]
           /\ distinct' = ok
           /\ added' = IF ok THEN added \cup {<<id, at>>} ELSE {}
           /\ UNCHANGED <<now, cycle_vars, alt_vars, loop_vars, fn_vars>>

AddRelationship ==
    \E f \in AnomalyIds, t \in AnomalyIds, ty \in EdgeTypes :
        LET c == IF ty = "temporal" THEN 70 ELSE 50
            g == add_relationship(kg, f, t, ty, c, NoMetadata, now)
        IN /\ calls < MaxCalls
           /\ calls' = calls + 1
           /\ kg' = g
           /\ last' = [op      |-> "add_relationship",
                       missing |-> f \notin NodeIds(kg) \/ t \notin NodeIds(kg),
                       evicted |-> NodeIds(kg) \ NodeIds(g) # {},
                       dropped |-> EdgeKeys(kg) \ EdgeKeys(g) # {}]
           /\ UNCHANGED <<added, distinct, now, cycle_vars, alt_vars, loop_vars, fn_vars>>

Next == AddAnomaly \/ AddRelationship

Spec == Init /\ [][Next]_vars

(***************************************************************************)
(* Claims about the knowledge graph                                        *)
(***************************************************************************)

\* C1: whenever add_anomaly has returned, after any sequence of calls (any
\* ids, any timestamps, re-added ids included), the graph holds at most
\* max_nodes nodes.
C1_NodeCountBounded == Cardinality(NodeIds(kg)) <= max_nodes

\* an add_anomaly call has just evicted a node to get back to max_nodes
C1_Witness ==
    /\ last.op = "add_anomaly"
    /\ last.evicted
    /\ Cardinality(NodeIds(kg)) = max_nodes

\* the ids carrying the max_nodes largest timestamps among those ever added
NewestAdded ==
    {p[1] : p \in {q \in added :
                     Cardinality({r \in added : r[2] > q[2]}) < max_nodes}}

\* C2: with pairwise distinct ids and timestamps, the nodes left are exactly
\* the max_nodes ids with the largest timestamps among all ids ever added
\* (all of them if fewer were added), and no edge touches an evicted id.
C2_OldestFirst ==
    distinct =>
        /\ NodeIds(kg) = NewestAdded
        /\ \A e \in EdgeKeys(kg) : e[1] \in NewestAdded /\ e[2] \in NewestAdded

\* more ids than max_nodes were added, and the last eviction took an edge with it
C2_Witness ==
    /\ distinct
    /\ Cardinality(added) > max_nodes
    /\ last.op = "add_anomaly"
    /\ last.dropped

\* C3: in every state reachable by add_anomaly and add_relationship calls,
\* both endpoints of every edge are nodes of the graph.
C3_EdgeEndpointsExist ==
    \A e \in EdgeKeys(kg) : e[1] \in NodeIds(kg) /\ e[2] \in NodeIds(kg)

\* an add_anomaly call has evicted a node that was the endpoint of an edge
C3_Witness ==
    /\ last.op = "add_anomaly"
    /\ last.evicted
    /\ last.dropped
    /\ Cardinality(NodeIds(kg)) = max_nodes

\* C4: add_relationship with a missing endpoint returns without changing
\* nodes, edges and their attributes, signatures or node timestamps.
C4_MissingEndpointNoOp ==
    [][(last'.op = "add_relationship" /\ last'.missing) => kg' = kg]_vars

\* a rejected add_relationship call on a graph that already holds an edge
C4_Witness ==
    /\ last.op = "add_relationship"
    /\ last.missing
    /\ EdgeKeys(kg) # {}

(***************************************************************************)
(* SpecCycle: AgentOrchestrator.analyze cycles, one after the other, on    *)
(* one orchestrator (one coordinator, one knowledge graph), with the wall  *)
(* clock advancing in between.                                             *)
(*                                                                         *)
(* A batch lists the points that matter to the outcome; the unflagged      *)
(* points a detector needs as a baseline are carried by the stat / temp /  *)
(* brk fields of the flagged ones.  historical_data=None and [] are the    *)
(* same list to every agent (historical_data or []).                       *)
(***************************************************************************)

\* analyze cycles run on one orchestrator
MaxCycles == 2

\* wall-clock steps between the reads of datetime.now()
MaxTicks == 1

Agents == {"StatisticalAgent", "TemporalAgent", "CorrelationAgent", "ContextAgent"}

Point(source, metric, value, ts, stat, temp, brk) ==
    [source |-> source, metric |-> metric, value |-> Num(value),
     timestamp |-> ts, stat |-> stat, temp |-> temp, brk |-> brk]

\* flagged by the statistical ensemble with confidence 0.7, at second 5
StatPoint == Point("sensor", "load", 50, 5000, 210, 0, 0)

\* flagged by a temporal detector with confidence 0.7, at second 40
TempPoint == Point("sensor", "load", 60, 40000, 0, 210, 0)

\* a temperature above 30: _fetch_context answers with relevance 0.7
WeatherPoint == Point("weather", "temperature", 35, 40500, 0, 0, 0)

EarlyWeatherPoint == Point("weather", "temperature", 35, 5000, 0, 0, 0)

\* flagged by the correlation-break scan with corr_change 0.6
BreakPoint == Point("sensor", "load", 55, 40500, 0, 0, 60)

\* in the history: flagged by the moving-average crossover (confidence 1.0)
HistPoint == Point("sensor", "load", 20, 1000, 0, 300, 0)

CurBatches ==
    {<<>>, <<StatPoint>>, <<TempPoint>>, <<StatPoint, TempPoint>>,
     <<WeatherPoint>>, <<EarlyWeatherPoint>>, <<TempPoint, WeatherPoint>>,
     <<BreakPoint, WeatherPoint>>}

HistBatches == {<<>>, <<HistPoint>>}

\* which agents' analyze raises in a cycle
FailingSets == {{}} \cup {{a} : a \in Agents}

\* the list handed to asyncio.gather, in its order
run_agents(current_data, historical_data, clock) ==
    <<statistical_analyze(current_data),
      temporal_analyze(current_data, historical_data),
      correlation_analyze(current_data, historical_data),
      context_analyze(current_data, clock)>>

\* KnowledgeGraphManager.export_graph
export_graph(g) ==
    LET stamps == {g.node_timestamps[i][2] : i \in 1..Len(g.node_timestamps)}
        n == Cardinality(NodeIds(g))
    IN [nodes |-> g.nodes,
        edges |-> g.edges,
        stats |->
          [num_nodes      |-> n,
           num_edges      |-> Cardinality(EdgeKeys(g)),
           num_signatures |-> Cardinality(DOMAIN g.signatures),
           oldest_node    |-> IF stamps = {} THEN NoTs
                              ELSE CHOOSE t \in stamps : \A u \in stamps : t <= u,
           newest_node    |-> IF stamps = {} THEN NoTs
                              ELSE CHOOSE t \in stamps : \A u \in stamps : t >= u,
           avg_degree     |-> Frac(2 * Cardinality(EdgeKeys(g)),
                                   IF n = 0 THEN 1 ELSE n)]]

\* final_results['knowledge_graph'] = ...
WithGraph(result, g) ==
    [f \in (DOMAIN result) \cup {"knowledge_graph"} |->
        IF f = "knowledge_graph" THEN export_graph(g) ELSE result[f]]

StartCycle ==
    \E c \in CurBatches, h \in HistBatches, f \in FailingSets :
        /\ pc = "idle"
        /\ cycles < MaxCycles
        /\ cycles' = cycles + 1
        /\ pc' = "agents"
        /\ cur' = c
        /\ hist' = h
        /\ failing' = f
        /\ agent_results' = <<>>
        /\ final' = [status |-> "running"]
        /\ prev' = IF final.status = "none" THEN [status |-> "none"]
                   ELSE [status |-> "done", cur |-> cur, hist |-> hist,
                         failing |-> failing, final |-> final]
        /\ UNCHANGED <<kg, now, api_vars, alt_vars, loop_vars, fn_vars>>

\* asyncio.gather(*agent_tasks) without return_exceptions: the first
\* exception of a task is raised out of analyze
GatherRaises ==
    /\ pc = "agents"
    /\ failing # {}
    /\ pc' = "idle"
    /\ final' = [status |-> "agent raised"]
    /\ UNCHANGED <<cycles, cur, hist, failing, agent_results, prev,
                   kg, now, api_vars, alt_vars, loop_vars, fn_vars>>

GatherReturns ==
    /\ pc = "agents"
    /\ failing = {}
    /\ agent_results' = run_agents(cur, hist, now)
    /\ pc' = "synthesize"
    /\ UNCHANGED <<cycles, cur, hist, failing, final, prev,
                   kg, now, api_vars, alt_vars, loop_vars, fn_vars>>

SynthesizeRaises ==
    /\ pc = "synthesize"
    /\ synthesize(agent_results, kg, now).raised
    /\ pc' = "idle"
    /\ final' = synthesize(agent_results, kg, now).result
    /\ UNCHANGED <<cycles, cur, hist, failing, agent_results, prev,
                   kg, now, api_vars, alt_vars, loop_vars, fn_vars>>

SynthesizeReturns ==
    /\ pc = "synthesize"
    /\ ~synthesize(agent_results, kg, now).raised
    /\ pc' = "export"
    /\ kg' = synthesize(agent_results, kg, now).kg
    /\ final' = synthesize(agent_results, kg, now).result
    /\ UNCHANGED <<cycles, cur, hist, failing, agent_results, prev,
                   now, api_vars, alt_vars, loop_vars, fn_vars>>

Export ==
    /\ pc = "export"
    /\ pc' = "idle"
    /\ final' = WithGraph(final, kg)
    /\ UNCHANGED <<cycles, cur, hist, failing, agent_results, prev,
                   kg, now, api_vars, alt_vars, loop_vars, fn_vars>>

Tick ==
    /\ now < 100000 + MaxTicks
    /\ now' = now + 1
    /\ UNCHANGED <<kg, cycle_vars, api_vars, alt_vars, loop_vars, fn_vars>>

CycleNext ==
    \/ StartCycle
    \/ GatherRaises
    \/ GatherReturns
    \/ SynthesizeRaises
    \/ SynthesizeReturns
    \/ Export
    \/ Tick

SpecCycle == Init /\ [][CycleNext]_vars

(***************************************************************************)
(* SpecSynth: CoordinatorAgent.synthesize applied to a list of agent       *)
(* results and to a permutation of it, from the same knowledge graph.      *)
(***************************************************************************)

Produce ==
    \E c \in CurBatches, h \in HistBatches :
        /\ pc = "idle"
        /\ cycles < MaxCycles
        /\ cycles' = cycles + 1
        /\ pc' = "permute"
        /\ cur' = c
        /\ hist' = h
        /\ agent_results' = run_agents(c, h, now)
        /\ UNCHANGED <<failing, final, prev, kg, now, api_vars, alt_vars, loop_vars, fn_vars>>

Permute ==
    \E p \in Permutations(1..4) :
        LET permuted == [i \in 1..4 |-> agent_results[p[i]]]
        IN /\ pc = "permute"
           /\ pc' = "idle"
           /\ alt_results' = permuted
           /\ final' = synthesize(agent_results, kg, now).result
           /\ alt_final' = synthesize(permuted, kg, now).result
           /\ kg' = synthesize(agent_results, kg, now).kg
           /\ UNCHANGED <<cycles, cur, hist, failing, agent_results, prev,
                          now, api_vars, fn_vars, loop_vars>>

SynthNext == Produce \/ Permute

SpecSynth == Init /\ [][SynthNext]_vars

(***************************************************************************)
(* Claims about the analyze cycle and the coordinator                      *)
(***************************************************************************)

\* an analyze call has ended, by returning or by raising
CycleEnded == pc = "idle" /\ final.status \in {"returned", "agent raised", "synthesize raised"}

\* C5: when exactly one agent's analyze raises during a cycle, the cycle
\* still completes: analyze returns a result synthesized from the other
\* agents, and the failed agent is in no report's detecting_agents.
C5_SingleAgentFailureTolerated ==
    (CycleEnded /\ Cardinality(failing) = 1) =>
        /\ final.status = "returned"
        /\ \A i \in 1..Len(final.reports) :
               final.reports[i].detecting_agents \cap failing = {}

\* the fields of a report that the final report set is compared on
ReportView(r) ==
    [anomaly_id       |-> r.anomaly_id,
     timestamp        |-> r.timestamp,
     value            |-> r.value,
     consensus_score  |-> r.consensus_score,
     severity         |-> r.severity,
     detecting_agents |-> r.detecting_agents]

ReportViews(result) == {ReportView(result.reports[i]) : i \in 1..Len(result.reports)}

\* C6: synthesize applied to a permutation of a list of agent results
\* returns the same set of reports (anomaly_id, timestamp, value,
\* consensus_score, severity, detecting_agents) as on the list itself, also
\* when two anomalies of one group have equal confidence.
C6_AgentOrderIrrelevant ==
    (final.status = "returned" /\ alt_final.status = "returned") =>
        ReportViews(final) = ReportViews(alt_final)

\* C7: analyze with an empty current batch returns, whatever the
\* historical data, a result with total_anomalies = 0 and no reports,
\* without raising.
C7_EmptyBatchYieldsNothing ==
    (CycleEnded /\ cur = <<>> /\ failing = {}) =>
        /\ final.status = "returned"
        /\ final.total_anomalies = 0
        /\ final.reports = <<>>

\* C8: on every list of results the agents can produce (correlation_break
\* anomalies with a string value and no source/metric keys, and
\* simultaneous_anomaly records with value None, included) synthesize
\* returns instead of raising, with a non-empty reports list or a populated
\* agents_consulted.
C8_SynthesizeAlwaysReturns ==
    (CycleEnded /\ failing = {}) =>
        /\ final.status = "returned"
        /\ final.reports # <<>> \/ final.agents_consulted # <<>>

\* a report without created_at
WithoutCreatedAt(r) == [f \in (DOMAIN r) \ {"created_at"} |-> r[f]]

ReportsWithoutCreatedAt(result) ==
    [i \in 1..Len(result.reports) |-> WithoutCreatedAt(result.reports[i])]

\* two analyze calls in a row, on the same input, have both returned
SameInputTwice ==
    /\ CycleEnded
    /\ final.status = "returned"
    /\ prev.status = "done"
    /\ prev.final.status = "returned"
    /\ prev.cur = cur
    /\ prev.hist = hist

\* C9: two runs of analyze on the same (current, historical) input, at
\* different wall-clock times and on different prior graph contents, return
\* reports equal in every field but created_at, the fields nested in
\* individual_detections included.
C9_Deterministic ==
    SameInputTwice =>
        ReportsWithoutCreatedAt(final) = ReportsWithoutCreatedAt(prev.final)

\* the reports of the last analyze call and of the one before
ReportsSeen ==
    (IF final.status = "returned" THEN Range(final.reports) ELSE {})
      \cup (IF prev.status = "done" /\ prev.final.status = "returned"
            THEN Range(prev.final.reports) ELSE {})

\* the key of the group a report was made from
ReportGroupKey(r) == GroupKey(r.individual_detections[1])

\* C10: two reports, of one cycle or of two, whose groups have the same key
\* (source, metric, timestamp truncated to the minute) have the same
\* anomaly_id, whichever member of the group was the representative.
C10_IdStable ==
    CycleEnded =>
        \A r1 \in ReportsSeen, r2 \in ReportsSeen :
            ReportGroupKey(r1) = ReportGroupKey(r2) => r1.anomaly_id = r2.anomaly_id

(***************************************************************************)
(* Floating-point arithmetic.                                              *)
(*                                                                         *)
(* Python floats are binary floating-point numbers with a 53-bit           *)
(* significand, every operation rounded to nearest, ties to even.  The     *)
(* same arithmetic is kept here with a MantissaBits-bit significand; a     *)
(* float is the exact fraction it stands for.  Only non-negative values    *)
(* occur.                                                                  *)
(***************************************************************************)

\* bits of the significand (53 in an IEEE double), scaled down
MantissaBits == 7

RECURSIVE Pow2(_)
Pow2(n) == IF n = 0 THEN 1 ELSE 2 * Pow2(n - 1)

FracAdd(f, g) == Frac(f.num * g.den + g.num * f.den, f.den * g.den)

FracMul(f, g) == Frac(f.num * g.num, f.den * g.den)

FracDiv(f, g) == Frac(f.num * g.den, f.den * g.num)

\* num / den = q * 2^e with 2^(MantissaBits-1) <= q < 2^MantissaBits
RECURSIVE Normalize(_, _, _)
Normalize(num, den, e) ==
    IF num >= Pow2(MantissaBits) * den THEN Normalize(num, 2 * den, e + 1)
    ELSE IF num < Pow2(MantissaBits - 1) * den THEN Normalize(2 * num, den, e - 1)
    ELSE [num |-> num, den |-> den, e |-> e]

\* the float nearest to the fraction f, ties to even
RoundFloat(f) ==
    IF f.num = 0 THEN Frac(0, 1)
    ELSE LET n == Normalize(f.num, f.den, 0)
             m == n.num \div n.den
             r == n.num % n.den
             up == 2 * r > n.den \/ (2 * r = n.den /\ m % 2 = 1)
             mant == IF up THEN m + 1 ELSE m
         IN IF n.e >= 0 THEN Frac(mant * Pow2(n.e), 1)
            ELSE Frac(mant, Pow2(-n.e))

\* the float a decimal literal such as 0.7 denotes
Float(num, den) == RoundFloat(Frac(num, den))

FloatAdd(x, y) == RoundFloat(FracAdd(x, y))

FloatMul(x, y) == RoundFloat(FracMul(x, y))

FloatDiv(x, y) == RoundFloat(FracDiv(x, y))

\* sum(...) over a list of floats: left to right from 0
RECURSIVE FloatSum(_)
FloatSum(s) ==
    IF s = <<>> THEN Frac(0, 1)
    ELSE FloatAdd(FloatSum(SubSeq(s, 1, Len(s) - 1)), s[Len(s)])

\* utils.helpers.weighted_average on floats
weighted_average_float(values, weights) ==
    IF values = <<>> \/ weights = <<>> \/ Len(values) # Len(weights)
    THEN Frac(0, 1)
    ELSE LET total_weight == FloatSum(weights)
         IN IF total_weight.num = 0 THEN Frac(0, 1)
            ELSE FloatDiv(FloatSum([i \in 1..Len(values) |->
                                       FloatMul(values[i], weights[i])]),
                          total_weight)

(***************************************************************************)
(* SpecAverage: the consensus score of one group, computed as              *)
(* _create_anomaly_report computes it from the members' confidences and    *)
(* agent weights.                                                          *)
(***************************************************************************)

\* members of a group
MaxGroup == 2

\* confidences the agents report: 0.4, 0.5, 0.6, 0.7, 0.75, 1.0
GroupConfidences ==
    {Float(2, 5), Float(1, 2), Float(3, 5), Float(7, 10), Float(3, 4), Float(1, 1)}

\* the default agent weights: 0.25, 0.20, 0.15
GroupWeights == {Float(1, 4), Float(1, 5), Float(3, 20)}

SeqsUpTo(S, n) == UNION {[1..k -> S] : k \in 1..n}

AverageInputs ==
    {[confidences |-> c, weights |-> w] :
        c \in SeqsUpTo(GroupConfidences, MaxGroup),
        w \in SeqsUpTo(GroupWeights, MaxGroup)}

AverageInit ==
    /\ Fresh
    /\ fn_args \in {a \in AverageInputs : Len(a.confidences) = Len(a.weights)}
    /\ fn_result = <<>>

\* consensus_score = weighted_average(agent_confidences, agent_weights)
ComputeConsensus ==
    /\ fn_result = <<>>
    /\ fn_result' = [consensus_score |->
                     weighted_average_float(fn_args.confidences, fn_args.weights)]
    /\ UNCHANGED <<fn_args, kg, now, cycle_vars, api_vars, alt_vars, loop_vars>>

SpecAverage == AverageInit /\ [][ComputeConsensus]_vars

\* the consensus score of the group in fn_args has been computed
ConsensusComputed == fn_result # <<>>

MinConfidence ==
    CHOOSE c \in Range(fn_args.confidences) :
        \A d \in Range(fn_args.confidences) : FracGE(d, c)

MaxConfidence ==
    CHOOSE c \in Range(fn_args.confidences) :
        \A d \in Range(fn_args.confidences) : FracGE(c, d)

\* C11: for every group with positive agent weights, the consensus_score
\* lies between the smallest and the largest confidence of its members,
\* both included.
C11_ConsensusWithinBounds ==
    ConsensusComputed =>
        /\ FracGE(fn_result.consensus_score, MinConfidence)
        /\ FracGE(MaxConfidence, fn_result.consensus_score)

(***************************************************************************)
(* SpecCoordinator: successive analyze calls on one orchestrator in which  *)
(* no agent raises, each taken as one step from the batch to what          *)
(* synthesize returns and leaves in the knowledge graph.                   *)
(***************************************************************************)

\* the repository API answers with relevance 0.5: below the threshold
GithubPoint == Point("github", "commits", 5, 40700, 0, 0, 0)

\* flagged by the statistical ensemble with confidence 0.6, at second 400
ThresholdPoint == Point("sensor", "latency", 70, 400000, 180, 0, 0)

\* flagged by the statistical ensemble with confidence 0.7, at second 700
FarPoint == Point("sensor", "errors", 9, 700000, 210, 0, 0)

\* unflagged points of four more sources, in the minute of TempPoint
Bystanders ==
    <<Point("db", "qps", 1, 41000, 0, 0, 0),
      Point("cache", "hits", 1, 41500, 0, 0, 0),
      Point("queue", "depth", 1, 42000, 0, 0, 0),
      Point("disk", "iops", 1, 42500, 0, 0, 0)>>

CoordinatorBatches ==
    CurBatches \cup
    {<<GithubPoint>>, <<ThresholdPoint>>, <<StatPoint, ThresholdPoint>>,
     <<StatPoint, EarlyWeatherPoint>>, <<StatPoint, FarPoint>>,
     <<ThresholdPoint, FarPoint>>, <<ThresholdPoint, GithubPoint>>,
     <<TempPoint>> \o Bystanders}

AnalyzeReturns ==
    \E c \in CoordinatorBatches, h \in HistBatches :
        LET results == run_agents(c, h, now)
            s == synthesize(results, kg, now)
        IN /\ pc = "idle"
           /\ cycles < MaxCycles
           /\ ~s.raised
           /\ cycles' = cycles + 1
           /\ cur' = c
           /\ hist' = h
           /\ agent_results' = results
           /\ kg' = s.kg
           /\ final' = WithGraph(s.result, s.kg)
           /\ UNCHANGED <<pc, failing, prev, now, api_vars, alt_vars, loop_vars, fn_vars>>

AnalyzeRaises ==
    \E c \in CoordinatorBatches, h \in HistBatches :
        LET results == run_agents(c, h, now)
            s == synthesize(results, kg, now)
        IN /\ pc = "idle"
           /\ cycles < MaxCycles
           /\ s.raised
           /\ cycles' = cycles + 1
           /\ cur' = c
           /\ hist' = h
           /\ agent_results' = results
           /\ final' = s.result
           /\ UNCHANGED <<pc, failing, prev, kg, now, api_vars, alt_vars, loop_vars, fn_vars>>

CoordinatorNext == AnalyzeReturns \/ AnalyzeRaises

SpecCoordinator == Init /\ [][CoordinatorNext]_vars

(***************************************************************************)
(* Claims about acceptance, severity and relationship derivation           *)
(***************************************************************************)

\* the groups the coordinator built in the analyze call that has just returned
GroupsBuilt == group_similar_anomalies(all_anomalies_of(agent_results))

\* the consensus score of a group reaches the threshold
ReachesThreshold(group) ==
    LET total == SumSeq([i \in 1..Len(group) |-> group[i].agent_weight])
        weighted == SumSeq([i \in 1..Len(group) |->
                               group[i].confidence * group[i].agent_weight])
    IN weighted >= consensus_threshold * total

GroupId(group) == generate_anomaly_id(representative_of(group))

\* C12: synthesize returns a report for a group iff the group's
\* consensus_score is >= consensus_threshold; a group below the threshold
\* is neither in reports nor added to the knowledge graph as a node, and
\* total_anomalies is the number of returned reports.
C12_AcceptanceThreshold ==
    [][(final' # final /\ final'.status = "returned") =>
          LET groups == group_similar_anomalies(all_anomalies_of(agent_results'))
              reported == {final'.reports[j].anomaly_id : j \in 1..Len(final'.reports)}
          IN /\ \A i \in 1..Len(groups) :
                    GroupId(groups[i]) \in reported <=> ReachesThreshold(groups[i])
             /\ \A i \in 1..Len(groups) :
                    ~ReachesThreshold(groups[i]) =>
                        GroupId(groups[i]) \notin NodeIds(kg') \ NodeIds(kg)
             /\ Len(final'.reports) =
                    Cardinality({i \in 1..Len(groups) : ReachesThreshold(groups[i])})
             /\ final'.total_anomalies = Len(final'.reports)]_vars

\* synthesize has just returned: one group sat exactly on the threshold and
\* was reported, another was below it and was dropped
C12_Witness ==
    /\ final.status = "returned"
    /\ \E i \in 1..Len(GroupsBuilt) :
           /\ weighted_average(GroupsBuilt[i]) = Frac(consensus_threshold, ConfOne)
           /\ \E j \in 1..Len(final.reports) :
                  final.reports[j].anomaly_id = GroupId(GroupsBuilt[i])
    /\ \E i \in 1..Len(GroupsBuilt) : ~ReachesThreshold(GroupsBuilt[i])

(***************************************************************************)
(* SpecSeverity: one call of utils.helpers.calculate_severity on floats,   *)
(* followed by the aggregation of the resulting score with the scores of   *)
(* the other members of its group in _create_anomaly_report.               *)
(***************************************************************************)

FloatMin(x, y) == IF FracGE(y, x) THEN x ELSE y

\* the label cuts are strict (not the code's)
calculate_severity_strict_cuts(confidence, deviation_magnitude, impact_scope, is_novel) ==
    LET base == FloatMul(confidence, Float(2, 5))
        deviation_score ==
            FloatMul(FloatMin(FloatDiv(deviation_magnitude, Float(10, 1)), Float(1, 1)),
                     Float(3, 10))
        scope_score ==
            FloatMul(FloatMin(FloatDiv(impact_scope, Float(5, 1)), Float(1, 1)),
                     Float(1, 5))
        summed == FloatAdd(FloatAdd(base, deviation_score), scope_score)
        bonus == IF is_novel THEN FloatAdd(summed, Float(1, 10)) ELSE summed
        score == FloatMin(bonus, Float(1, 1))
    IN [label |-> IF FracGT(score, Float(9, 10)) THEN "critical"
                  ELSE IF FracGT(score, Float(3, 4)) THEN "high"
                  ELSE IF FracGT(score, Float(1, 2)) THEN "medium"
                  ELSE "low",
        score |-> score]

\* utils.helpers.calculate_severity on floats
calculate_severity(confidence, deviation_magnitude, impact_scope, is_novel) ==
    LET base == FloatMul(confidence, Float(2, 5))
        deviation_score ==
            FloatMul(FloatMin(FloatDiv(deviation_magnitude, Float(10, 1)), Float(1, 1)),
                     Float(3, 10))
        scope_score ==
            FloatMul(FloatMin(FloatDiv(impact_scope, Float(5, 1)), Float(1, 1)),
                     Float(1, 5))
        summed == FloatAdd(FloatAdd(base, deviation_score), scope_score)
        bonus == IF is_novel THEN FloatAdd(summed, Float(1, 10)) ELSE summed
        score == FloatMin(bonus, Float(1, 1))
    IN [label |-> IF FracGE(score, Float(9, 10)) THEN "critical"
                  ELSE IF FracGE(score, Float(3, 4)) THEN "high"
                  ELSE IF FracGE(score, Float(1, 2)) THEN "medium"
                  ELSE "low",
        score |-> score]

\* np.mean of the members' severity scores and the label of the report
aggregate_severity(severity_scores) ==
    LET avg_severity_score ==
            FloatDiv(FloatSum(severity_scores), Float(Len(severity_scores), 1))
    IN [severity |-> IF FracGE(avg_severity_score, Float(9, 10)) THEN "critical"
                     ELSE IF FracGE(avg_severity_score, Float(3, 4)) THEN "high"
                     ELSE IF FracGE(avg_severity_score, Float(1, 2)) THEN "medium"
                     ELSE "low",
        severity_score |-> avg_severity_score]

\* confidences 0, 0.3, 0.6, 0.75, 0.9, 1.0
SeverityConfidences ==
    {Float(0, 1), Float(3, 10), Float(3, 5), Float(3, 4), Float(9, 10), Float(1, 1)}

\* deviation magnitudes 0, 2.5, 5, 10, 30
SeverityDeviations ==
    {Float(0, 1), Float(5, 2), Float(5, 1), Float(10, 1), Float(30, 1)}

\* impact scopes 1, 1.5, 2, 5, 7
SeverityScopes == {Float(1, 1), Float(3, 2), Float(2, 1), Float(5, 1), Float(7, 1)}

\* scores of the other members of a group: the default 0.5 and three
\* scores the agents compute
MemberScores ==
    {Float(1, 2),
     calculate_severity(Float(7, 10), Float(0, 1), Float(1, 1), FALSE).score,
     calculate_severity(Float(1, 1), Float(5, 1), Float(5, 1), FALSE).score,
     calculate_severity(Float(1, 1), Float(10, 1), Float(5, 1), TRUE).score}

SeverityInit ==
    /\ Fresh
    /\ fn_args \in [confidence : SeverityConfidences,
                    deviation_magnitude : SeverityDeviations,
                    impact_scope : SeverityScopes,
                    is_novel : BOOLEAN]
    /\ fn_result = <<>>

\* severity_label, severity_score = calculate_severity(...)
CalculateSeverity ==
    /\ fn_result = <<>>
    /\ fn_result' = [call |-> calculate_severity(fn_args.confidence,
                                                 fn_args.deviation_magnitude,
                                                 fn_args.impact_scope,
                                                 fn_args.is_novel),
                     report |-> <<>>]
    /\ UNCHANGED <<fn_args, kg, now, cycle_vars, api_vars, alt_vars, loop_vars>>

\* the anomaly is reported in a group with up to MaxGroup - 1 others
AggregateSeverity ==
    \E others \in {<<>>} \cup SeqsUpTo(MemberScores, MaxGroup - 1) :
        /\ fn_result # <<>>
        /\ fn_result.report = <<>>
        /\ fn_result' = [fn_result EXCEPT
                           !.report = aggregate_severity(<<fn_result.call.score>> \o others)]
        /\ UNCHANGED <<fn_args, kg, now, cycle_vars, api_vars, alt_vars, loop_vars>>

SeverityNext == CalculateSeverity \/ AggregateSeverity

SpecSeverity == SeverityInit /\ [][SeverityNext]_vars

\* the label the cuts 0.9, 0.75, 0.5 give a score
LabelByCuts(score) ==
    IF FracGE(score, Float(9, 10)) THEN "critical"
    ELSE IF FracGE(score, Float(3, 4)) /\ FracGT(Float(9, 10), score) THEN "high"
    ELSE IF FracGE(score, Float(1, 2)) /\ FracGT(Float(3, 4), score) THEN "medium"
    ELSE "low"

SeverityCalculated == fn_result # <<>>

SeverityReported == fn_result # <<>> /\ fn_result.report # <<>>

\* C13: raising confidence, deviation magnitude or impact scope, the other
\* arguments fixed, never lowers the score calculate_severity returns; the
\* score never exceeds 1; the returned label is critical iff score >= 0.9,
\* high iff 0.75 <= score < 0.9, medium iff 0.5 <= score < 0.75 and low
\* otherwise; and a report's severity label obeys the same cuts on its
\* severity_score.
C13_SeverityMonotone ==
    /\ SeverityCalculated =>
        LET a == fn_args
            score == fn_result.call.score
        IN /\ \A c \in SeverityConfidences :
                 FracGE(c, a.confidence) =>
                     FracGE(calculate_severity(c, a.deviation_magnitude,
                                a.impact_scope, a.is_novel).score, score)
           /\ \A d \in SeverityDeviations :
                 FracGE(d, a.deviation_magnitude) =>
                     FracGE(calculate_severity(a.confidence, d,
                                a.impact_scope, a.is_novel).score, score)
           /\ \A n \in SeverityScopes :
                 FracGE(n, a.impact_scope) =>
                     FracGE(calculate_severity(a.confidence, a.deviation_magnitude,
                                n, a.is_novel).score, score)
           /\ FracGE(Float(1, 1), score)
           /\ fn_result.call.label = LabelByCuts(score)
    /\ SeverityReported =>
        fn_result.report.severity = LabelByCuts(fn_result.report.severity_score)

\* a score exactly on the cut 0.75 was labelled and then averaged with
\* another member's score
C13_Witness ==
    /\ SeverityReported
    /\ fn_result.call.score = Float(3, 4)
    /\ fn_result.call.label = "high"
    /\ fn_result.report.severity_score # fn_result.call.score

(***************************************************************************)
(* Relationship derivation (_detect_relationships), under SpecCoordinator. *)
(***************************************************************************)

\* the pairs i < j of returned reports whose nodes are both in the graph
RelatedPairs ==
    IF final.status # "returned" THEN {}
    ELSE {p \in (1..Len(final.reports)) \X (1..Len(final.reports)) :
            /\ p[1] < p[2]
            /\ final.reports[p[1]].anomaly_id \in NodeIds(kg)
            /\ final.reports[p[2]].anomaly_id \in NodeIds(kg)}

EdgeOf(p) == <<final.reports[p[1]].anomaly_id, final.reports[p[2]].anomaly_id>>

TimeDiff(p) == Abs(final.reports[p[1]].timestamp - final.reports[p[2]].timestamp)

\* C14: after relationship derivation, every pair of accepted reports R1
\* before R2 in the sorted list whose nodes are both in the graph and whose
\* timestamps differ by at most 300 s has an edge R1->R2 of type temporal
\* with confidence 0.7, also when the pair qualifies for a correlation or a
\* causal edge.
C14_TemporalEdgeKept ==
    \A p \in RelatedPairs :
        TimeDiff(p) <= 300 * MsPerSecond =>
            /\ EdgeOf(p) \in EdgeKeys(kg)
            /\ kg.edges[EdgeOf(p)].type = "temporal"
            /\ kg.edges[EdgeOf(p)].confidence = 70

\* two reports within 300 s of each other are both in the graph
C14_Witness ==
    \E p \in RelatedPairs : TimeDiff(p) <= 300 * MsPerSecond

\* every pair R1 before R2 with R1 earlier by at most 600 s has the causal
\* edge the derivation last wrote for it
CausalEdgesDerived ==
    \A p \in RelatedPairs :
        (/\ final.reports[p[1]].timestamp < final.reports[p[2]].timestamp
         /\ TimeDiff(p) <= 600 * MsPerSecond) =>
            /\ EdgeOf(p) \in EdgeKeys(kg)
            /\ kg.edges[EdgeOf(p)].type = "causal"
            /\ kg.edges[EdgeOf(p)].confidence =
                   (IF final.reports[p[1]].severity = "high" THEN 80 ELSE 50)
            /\ kg.edges[EdgeOf(p)].metadata = [time_diff_seconds |-> TimeDiff(p)]

\* a causal edge written by this step leads to a strictly later node
NoBackwardCausalEdge ==
    \A e \in EdgeKeys(kg') :
        (/\ kg'.edges[e].type = "causal"
         /\ (e \notin EdgeKeys(kg) \/ kg.edges[e] # kg'.edges[e])) =>
            kg'.nodes[e[1]].timestamp < kg'.nodes[e[2]].timestamp

\* C15: for every pair of accepted reports R1 before R2 in the sorted list
\* with both nodes in the graph, R1.timestamp < R2.timestamp and a
\* difference of at most 600 s, the edge R1->R2 has type causal, confidence
\* 0.8 when R1.severity is high and 0.5 otherwise, and metadata recording
\* the time difference; derivation never creates a causal edge from a report
\* to one with an earlier or equal timestamp.
C15_CausalDerivation ==
    []CausalEdgesDerived /\ [][NoBackwardCausalEdge]_vars

\* a high report is followed within 600 s by a later one, and the edge
\* between them carries the bonus
C15_Witness ==
    \E p \in RelatedPairs :
        /\ final.reports[p[1]].severity = "high"
        /\ final.reports[p[1]].timestamp < final.reports[p[2]].timestamp
        /\ TimeDiff(p) <= 600 * MsPerSecond
        /\ kg.edges[EdgeOf(p)].confidence = 80

(***************************************************************************)
(* Grouping of a statistical anomaly with a simultaneous anomaly.          *)
(***************************************************************************)

\* the anomalies an agent returned in the last analyze call
AnomaliesOf(agent) ==
    {a \in Range(all_anomalies_of(agent_results)) : a.agent_name = agent}

\* the sources of the batch with a data point in the minute ts
SourcesInMinute(ts) ==
    {cur[i].source : i \in {k \in 1..Len(cur) : TruncateToMinute(cur[k].timestamp) = ts}}

\* a StatisticalAgent anomaly and a simultaneous_anomaly covering its source
\* in the same minute
SimultaneousPairs ==
    IF final.status # "returned" THEN {}
    ELSE {p \in AnomaliesOf("StatisticalAgent") \X AnomaliesOf("CorrelationAgent") :
            /\ p[2].type = "simultaneous_anomaly"
            /\ TruncateToMinute(p[1].timestamp) = p[2].timestamp
            /\ p[1].source \in SourcesInMinute(p[2].timestamp)}

\* C16: when, for the same minute, the StatisticalAgent reports an anomaly
\* on a (source, metric) series and the CorrelationAgent reports a
\* simultaneous_anomaly covering that source, the coordinator places both in
\* one group and emits a single report whose detecting_agents contains both
\* StatisticalAgent and CorrelationAgent.
C16_SimultaneousGrouped ==
    \A p \in SimultaneousPairs :
        \E j \in 1..Len(final.reports) :
            /\ {"StatisticalAgent", "CorrelationAgent"} \subseteq
                   final.reports[j].detecting_agents
            /\ p[1] \in Range(final.reports[j].individual_detections)
            /\ p[2] \in Range(final.reports[j].individual_detections)

\* both anomalies were returned for one minute
C16_Witness == SimultaneousPairs # {}

(***************************************************************************)
(* Open-interest detectors (detection/oi_detectors.py) and OIAgent.        *)
(*                                                                         *)
(* Price and OI changes are integers in tenths of a percent, funding rates *)
(* integers in hundredths of a percent, long/short ratios integers in      *)
(* tenths; the thresholds they are compared with are scaled alike.         *)
(* Confidences are floats.                                                 *)
(***************************************************************************)

\* the classes tried in another order: the OI spike first (not the code's)
divergence_class_spike_first(price_chg, oi_chg) ==
    IF Abs(oi_chg) > 100 THEN "oi_spike_anomaly"
    ELSE IF price_chg > 10 /\ oi_chg < -20 THEN "bearish_divergence"
    ELSE IF price_chg < -10 /\ oi_chg > 20 THEN "bullish_divergence"
    ELSE IF price_chg > 20 /\ oi_chg > 50 THEN "bullish_continuation"
    ELSE IF price_chg < -20 /\ oi_chg > 50 THEN "bearish_continuation"
    ELSE "none"

\* the if/elif chain of OIDivergenceDetector.detect: price_threshold 1.0,
\* oi_threshold 2.0, spike_threshold 10.0
divergence_class(price_chg, oi_chg) ==
    IF price_chg > 10 /\ oi_chg < -20 THEN "bearish_divergence"
    ELSE IF price_chg < -10 /\ oi_chg > 20 THEN "bullish_divergence"
    ELSE IF price_chg > 20 /\ oi_chg > 50 THEN "bullish_continuation"
    ELSE IF price_chg < -20 /\ oi_chg > 50 THEN "bearish_continuation"
    ELSE IF Abs(oi_chg) > 100 THEN "oi_spike_anomaly"
    ELSE "none"

\* the confidence the chain assigns with the class
divergence_confidence(divergence_type, oi_chg) ==
    LET oi == Float(Abs(oi_chg), 10)
    IN IF divergence_type \in {"bearish_divergence", "bullish_divergence"}
       THEN FloatMin(Float(19, 20), FloatAdd(Float(3, 5), FloatDiv(oi, Float(20, 1))))
       ELSE IF divergence_type \in {"bullish_continuation", "bearish_continuation"}
       THEN FloatMin(Float(9, 10), FloatAdd(Float(1, 2), FloatDiv(oi, Float(30, 1))))
       ELSE FloatMin(Float(19, 20), FloatAdd(Float(7, 10), FloatDiv(oi, Float(50, 1))))

\* the severity tag the chain assigns with the class
divergence_severity(divergence_type, oi_chg) ==
    IF divergence_type \in {"bearish_divergence", "bullish_divergence"}
    THEN (IF Abs(oi_chg) > 50 THEN "high" ELSE "medium")
    ELSE IF divergence_type \in {"bullish_continuation", "bearish_continuation"}
    THEN "medium"
    ELSE (IF Abs(oi_chg) > 200 THEN "high" ELSE "medium")

\* a detector output; the fields a detector does not set are absent
Detection(index, kind, value, oi_change_pct, confidence, severity, method) ==
    [index         |-> index,
     kind          |-> kind,
     value         |-> value,
     oi_change_pct |-> oi_change_pct,
     confidence    |-> confidence,
     severity      |-> severity,
     method        |-> method]

\* OIDivergenceDetector.detect
OIDivergenceDetector_detect(price_changes, oi_changes) ==
    IF Len(price_changes) # Len(oi_changes) THEN <<>>
    ELSE LET idx == [i \in 1..Len(price_changes) |-> i]
             hits == SelectSeq(idx, LAMBDA i :
                        divergence_class(price_changes[i], oi_changes[i]) # "none")
         IN MapSeq(hits, LAMBDA i :
                LET t == divergence_class(price_changes[i], oi_changes[i])
                IN Detection(i - 1, t, price_changes[i], oi_changes[i],
                             divergence_confidence(t, oi_changes[i]),
                             divergence_severity(t, oi_changes[i]),
                             "oi_divergence"))

\* FundingRateDetector.detect: extreme_threshold 0.1, moderate_threshold 0.05
FundingRateDetector_detect(funding_rates) ==
    LET idx == [i \in 1..Len(funding_rates) |-> i]
        hits == SelectSeq(idx, LAMBDA i : Abs(funding_rates[i]) >= 5)
        rate(i) == Float(Abs(funding_rates[i]), 100)
    IN MapSeq(hits, LAMBDA i :
           IF Abs(funding_rates[i]) >= 10
           THEN Detection(i - 1,
                          IF funding_rates[i] > 0 THEN "extreme_long_pressure"
                          ELSE "extreme_short_pressure",
                          funding_rates[i], 0,
                          FloatMin(Float(19, 20),
                                   FloatAdd(Float(7, 10), FloatDiv(rate(i), Float(1, 5)))),
                          "high", "funding_rate")
           ELSE Detection(i - 1,
                          IF funding_rates[i] > 0 THEN "high_long_pressure"
                          ELSE "high_short_pressure",
                          funding_rates[i], 0,
                          FloatAdd(Float(3, 5), FloatDiv(rate(i), Float(3, 20))),
                          "medium", "funding_rate"))

\* abs(np.log(ratio)) to three decimals, for the ratios of Ratios
AbsLog(ratio) ==
    LET thousandths ==
            CASE ratio = 2 -> 1609 [] ratio = 3 -> 1204 [] ratio = 5 -> 693
              [] ratio = 10 -> 0 [] ratio = 15 -> 405 [] ratio = 20 -> 693
              [] ratio = 25 -> 916 [] ratio = 30 -> 1099 [] ratio = 50 -> 1609
              [] ratio = 100 -> 2303
    IN Float(thousandths, 1000)

\* LongShortRatioDetector.detect: extreme_ratio 3.0, moderate_ratio 2.0
LongShortRatioDetector_detect(ratios, is_top_trader) ==
    LET idx == [i \in 1..Len(ratios) |-> i]
        extreme(i) == ratios[i] >= 30 \/ 3 * ratios[i] <= 10
        moderate(i) == ratios[i] >= 20 \/ 2 * ratios[i] <= 10
        direction(i) == IF ratios[i] > 10 THEN "long" ELSE "short"
        hits == SelectSeq(idx, LAMBDA i : extreme(i) \/ moderate(i))
    IN MapSeq(hits, LAMBDA i :
           IF extreme(i)
           THEN Detection(i - 1,
                          IF direction(i) = "long" THEN "extreme_long_crowding"
                          ELSE "extreme_short_crowding",
                          ratios[i], 0,
                          FloatMin(Float(9, 10),
                                   FloatAdd(Float(13, 20),
                                            FloatDiv(AbsLog(ratios[i]), Float(5, 1)))),
                          IF is_top_trader THEN "high" ELSE "medium",
                          "long_short_ratio")
           ELSE Detection(i - 1,
                          IF direction(i) = "long" THEN "elevated_long_bias"
                          ELSE "elevated_short_bias",
                          ratios[i], 0,
                          FloatAdd(Float(1, 2), FloatDiv(AbsLog(ratios[i]), Float(8, 1))),
                          "low", "long_short_ratio"))

\* OIAgent defaults: weight 0.20, min_confidence 0.6
OIWeight == Float(1, 5)

OIMinConfidence == Float(3, 5)

\* OIAgent._create_anomaly
oi_create_anomaly(detection, detection_type) ==
    LET sev == calculate_severity(
                   detection.confidence,
                   FloatDiv(Float(Abs(detection.oi_change_pct), 10), Float(10, 1)),
                   IF detection.severity = "high" THEN Float(3, 2) ELSE Float(1, 1),
                   FALSE)
    IN [agent             |-> "OIAgent",
        source            |-> "oi_derivatives",
        detection_type    |-> detection_type,
        confidence        |-> detection.confidence,
        severity          |-> sev.label,
        severity_score    |-> sev.score,
        detection_methods |-> <<detection.method>>,
        metadata          |-> [index         |-> detection.index,
                               kind          |-> detection.kind,
                               value         |-> detection.value,
                               oi_change_pct |-> detection.oi_change_pct]]

\* the detections OIAgent.analyze turns into anomalies
oi_accepted(detections) ==
    SelectSeq(detections, LAMBDA d : FracGE(d.confidence, OIMinConfidence))

(***************************************************************************)
(* SpecOI: one call of one OI detector on lists of changes, rates or       *)
(* ratios; OIAgent then builds its anomalies from the detections, and the  *)
(* coordinator the consensus score of the group they form.                 *)
(***************************************************************************)

\* length of the lists handed to a detector
MaxSeries == 2

\* price changes -3.0 .. 3.0 %
PriceChanges == {-30, -20, -15, -10, 0, 10, 15, 20, 30}

\* OI changes -25.0 .. 25.0 %
OIChanges == {-250, -110, -100, -60, -50, -20, 0, 20, 30, 50, 60, 100, 110, 250}

\* funding rates -0.12 .. 0.30 %
FundingRates == {-12, -10, -8, -5, -4, 0, 4, 5, 6, 8, 10, 12, 30}

\* long/short ratios 0.2 .. 10.0
Ratios == {2, 3, 5, 10, 15, 20, 25, 30, 50, 100}

OICall(kind, price_changes, oi_changes, funding_rates, ratios, is_top_trader) ==
    [kind           |-> kind,
     price_changes  |-> price_changes,
     oi_changes     |-> oi_changes,
     funding_rates  |-> funding_rates,
     ratios         |-> ratios,
     is_top_trader  |-> is_top_trader]

\* one call whose lists run through every pair of PriceChanges and OIChanges
PriceGrid == <<-30, -20, -15, -10, 0, 10, 15, 20, 30>>
OIGrid == <<-250, -110, -100, -60, -50, -20, 0, 20, 30, 50, 60, 100, 110, 250>>
GridCall ==
    OICall("divergence",
           [i \in 1..(Len(PriceGrid) * Len(OIGrid)) |->
               PriceGrid[((i - 1) % Len(PriceGrid)) + 1]],
           [i \in 1..(Len(PriceGrid) * Len(OIGrid)) |->
               OIGrid[((i - 1) \div Len(PriceGrid)) + 1]],
           <<>>, <<>>, FALSE)

OIInputs ==
    {OICall("divergence", <<p>>, <<o>>, <<>>, <<>>, FALSE) :
        p \in PriceChanges, o \in OIChanges}
    \cup {GridCall}
    \cup
    {OICall("divergence", p, o, <<>>, <<>>, FALSE) :
        p \in {<<>>} \cup SeqsUpTo({-30, 30}, MaxSeries),
        o \in {<<>>} \cup SeqsUpTo({-60, 60}, MaxSeries)}
    \cup
    {OICall("funding_rate", <<>>, <<>>, f, <<>>, FALSE) :
        f \in {<<>>} \cup SeqsUpTo(FundingRates, MaxSeries)}
    \cup
    {OICall("long_short_ratio", <<>>, <<>>, <<>>, r, t) :
        r \in {<<>>} \cup SeqsUpTo(Ratios, MaxSeries), t \in BOOLEAN}

OIInit ==
    /\ Fresh
    /\ fn_args \in OIInputs
    /\ fn_result = <<>>

OIResult(stage, detections, anomalies, consensus_score) ==
    [stage           |-> stage,
     detections      |-> detections,
     anomalies       |-> anomalies,
     consensus_score |-> consensus_score]

DetectDivergence ==
    /\ fn_result = <<>>
    /\ fn_args.kind = "divergence"
    /\ fn_result' = OIResult("detected",
                        OIDivergenceDetector_detect(fn_args.price_changes,
                                                    fn_args.oi_changes),
                        <<>>, NoFrac)
    /\ UNCHANGED <<fn_args, kg, now, cycle_vars, api_vars, alt_vars, loop_vars>>

DetectFundingRate ==
    /\ fn_result = <<>>
    /\ fn_args.kind = "funding_rate"
    /\ fn_result' = OIResult("detected",
                        FundingRateDetector_detect(fn_args.funding_rates),
                        <<>>, NoFrac)
    /\ UNCHANGED <<fn_args, kg, now, cycle_vars, api_vars, alt_vars, loop_vars>>

DetectRatio ==
    /\ fn_result = <<>>
    /\ fn_args.kind = "long_short_ratio"
    /\ fn_result' = OIResult("detected",
                        LongShortRatioDetector_detect(fn_args.ratios,
                                                      fn_args.is_top_trader),
                        <<>>, NoFrac)
    /\ UNCHANGED <<fn_args, kg, now, cycle_vars, api_vars, alt_vars, loop_vars>>

\* the detection_type OIAgent.analyze passes for the detector called
DetectionType ==
    IF fn_args.kind = "long_short_ratio" /\ fn_args.is_top_trader
    THEN "top_trader_ratio"
    ELSE fn_args.kind

\* OIAgent.analyze: one anomaly per detection with confidence >= min_confidence
CreateAnomalies ==
    /\ fn_result # <<>>
    /\ fn_result.stage = "detected"
    /\ fn_result' = [fn_result EXCEPT
                       !.stage = "created",
                       !.anomalies =
                           MapSeq(oi_accepted(fn_result.detections),
                                  LAMBDA d : oi_create_anomaly(d, DetectionType))]
    /\ UNCHANGED <<fn_args, kg, now, cycle_vars, api_vars, alt_vars, loop_vars>>

\* _create_anomaly_report: the anomalies of the call, of one source and one
\* minute, form one group
OIConsensus ==
    /\ fn_result # <<>>
    /\ fn_result.stage = "created"
    /\ fn_result.anomalies # <<>>
    /\ fn_result' = [fn_result EXCEPT
                       !.stage = "reported",
                       !.consensus_score =
                           weighted_average_float(
                               MapSeq(fn_result.anomalies, LAMBDA a : a.confidence),
                               MapSeq(fn_result.anomalies, LAMBDA a : OIWeight))]
    /\ UNCHANGED <<fn_args, kg, now, cycle_vars, api_vars, alt_vars, loop_vars>>

OINext ==
    \/ DetectDivergence
    \/ DetectFundingRate
    \/ DetectRatio
    \/ CreateAnomalies
    \/ OIConsensus

SpecOI == OIInit /\ [][OINext]_vars

OIDetected == fn_result # <<>>

OICreated == fn_result # <<>> /\ fn_result.stage \in {"created", "reported"}

\* the classes in the order in which they are tried
ClassOrder ==
    <<"bearish_divergence", "bullish_divergence", "bullish_continuation",
      "bearish_continuation", "oi_spike_anomaly">>

\* the condition of a class on a price change and an OI change, in percent
ClassMatches(class, price_chg, oi_chg) ==
    CASE class = "bearish_divergence" -> price_chg > 10 /\ oi_chg < -20
      [] class = "bullish_divergence" -> price_chg < -10 /\ oi_chg > 20
      [] class = "bullish_continuation" -> price_chg > 20 /\ oi_chg > 50
      [] class = "bearish_continuation" -> price_chg < -20 /\ oi_chg > 50
      [] class = "oi_spike_anomaly" -> Abs(oi_chg) > 100

FirstMatch(price_chg, oi_chg) ==
    LET m == SelectSeq(ClassOrder, LAMBDA c : ClassMatches(c, price_chg, oi_chg))
    IN IF m = <<>> THEN "none" ELSE m[1]

\* the detections emitted for position i of the lists
DetectionsAt(i) ==
    {k \in 1..Len(fn_result.detections) : fn_result.detections[k].index = i - 1}

\* C17: every OIAgent anomaly built from a detection tagged severity=high
\* carries the severity label high; a price change of -3.0% with an OI
\* change of +6.0% gives a bullish_divergence anomaly with confidence >= 0.85
\* and severity high, and a funding rate of 0.12% gives an
\* extreme_long_pressure anomaly with confidence >= 0.75 and severity high.
C17_HighStaysHigh ==
    OICreated =>
        LET accepted == oi_accepted(fn_result.detections)
            anomalies == fn_result.anomalies
        IN /\ Len(anomalies) = Len(accepted)
           /\ \A k \in 1..Len(anomalies) :
                 accepted[k].severity = "high" => anomalies[k].severity = "high"
           /\ (fn_args.kind = "divergence" /\ fn_args.price_changes = <<-30>>
                 /\ fn_args.oi_changes = <<60>>) =>
                 /\ Len(anomalies) = 1
                 /\ anomalies[1].metadata.kind = "bullish_divergence"
                 /\ FracGE(anomalies[1].confidence, Float(17, 20))
                 /\ anomalies[1].severity = "high"
           /\ (fn_args.kind = "funding_rate" /\ fn_args.funding_rates = <<12>>) =>
                 /\ Len(anomalies) = 1
                 /\ anomalies[1].metadata.kind = "extreme_long_pressure"
                 /\ FracGE(anomalies[1].confidence, Float(3, 4))
                 /\ anomalies[1].severity = "high"

\* an anomaly was built from a detection tagged high
C17_Witness ==
    /\ OICreated
    /\ \E k \in 1..Len(oi_accepted(fn_result.detections)) :
          oi_accepted(fn_result.detections)[k].severity = "high"

C19_ConfidenceInUnitInterval ==
    OIDetected =>
        /\ \A k \in 1..Len(fn_result.detections) :
              /\ FracGE(fn_result.detections[k].confidence, Float(0, 1))
              /\ FracGE(Float(1, 1), fn_result.detections[k].confidence)
        /\ fn_result.stage = "reported" =>
              /\ FracGE(fn_result.consensus_score, Float(0, 1))
              /\ FracGE(Float(1, 1), fn_result.consensus_score)

\* a funding rate of the moderate band was detected
C19_Witness ==
    /\ OIDetected
    /\ \E k \in 1..Len(fn_result.detections) :
          fn_result.detections[k].kind = "high_long_pressure"

(***************************************************************************)
(* Statistical detectors (detection/statistical_detectors.py) on a series  *)
(* of integer values.                                                      *)
(*                                                                         *)
(* Whether a detector flags a value is decided exactly: a comparison with  *)
(* a standard deviation is made on the squares.  A confidence is the       *)
(* sigmoid of calculate_confidence in thousandths, read from a table and   *)
(* interpolated; a score under a square root is taken to one decimal.      *)
(***************************************************************************)

\* n * sum(x^2) - sum(x)^2: the population variance times n^2
VarianceN2(values) ==
    Len(values) * SumSeq([i \in 1..Len(values) |-> values[i] * values[i]])
        - SumSeq(values) * SumSeq(values)

\* n * (values[i] - mean)
DeviationN(values, i) == Len(values) * values[i] - SumSeq(values)

\* the largest r with r * r <= n
ISqrt(n) == CHOOSE r \in 0..400 : r * r <= n /\ n < (r + 1) * (r + 1)

\* 1000 / (1 + exp(-k)) for k = 0 .. 6
SigmoidTable == <<500, 731, 881, 953, 982, 993, 998>>

\* 1000 / (1 + exp(-t)) for a t >= 0 given in thousandths
SigmoidUp(t) ==
    IF t >= 6000 THEN SigmoidTable[7]
    ELSE LET k == t \div 1000
             r == t % 1000
         IN SigmoidTable[k + 1]
              + (r * (SigmoidTable[k + 2] - SigmoidTable[k + 1])) \div 1000

Sigmoid(t) == IF t >= 0 THEN SigmoidUp(t) ELSE 1000 - SigmoidUp(-t)

\* the whole thousandths of a fraction, rounded towards minus infinity
Thousandths(f) == (1000 * f.num) \div f.den

\* utils.helpers.calculate_confidence for threshold # 0:
\* sigmoid(scale * (deviation / threshold - 1)), clipped to [0, 1]
calculate_confidence(deviation, threshold, scale) ==
    LET ratio == Thousandths(FracDiv(deviation, threshold))
    IN Sigmoid(Thousandths(Frac(scale.num * (ratio - 1000), scale.den * 1000)))

\* ZScoreDetector threshold, from zscore_threshold
ZScoreThreshold == 3

\* ZScoreDetector.detect flags with the threshold of the unit test (not the
\* default)
zscore_flags_at_2(values, i) ==
    /\ Len(values) >= 3
    /\ VarianceN2(values) # 0
    /\ DeviationN(values, i) * DeviationN(values, i) > 2 * 2 * VarianceN2(values)

\* ZScoreDetector.detect: z_score > threshold, where
\* z_score = |values[i] - mean| / std
zscore_flags(values, i) ==
    /\ Len(values) >= 3
    /\ VarianceN2(values) # 0
    /\ DeviationN(values, i) * DeviationN(values, i)
           > ZScoreThreshold * ZScoreThreshold * VarianceN2(values)

\* a detection of one detector; score_sq is the square of its z_score where
\* it reports one
StatDetection(index, value, method, confidence, score_sq) ==
    [index      |-> index,
     value      |-> value,
     method     |-> method,
     confidence |-> confidence,
     score_sq   |-> score_sq]

ZScoreDetector_detect(values) ==
    LET idx == [i \in 1..Len(values) |-> i]
        z_tenths(i) ==
            ISqrt((100 * DeviationN(values, i) * DeviationN(values, i))
                      \div VarianceN2(values))
    IN MapSeq(SelectSeq(idx, LAMBDA i : zscore_flags(values, i)),
              LAMBDA i :
                  StatDetection(i - 1, values[i], "zscore",
                      calculate_confidence(Frac(z_tenths(i), 10),
                                           Frac(ZScoreThreshold, 1), Frac(1, 2)),
                      Frac(DeviationN(values, i) * DeviationN(values, i),
                           VarianceN2(values))))

RECURSIVE InsertInt(_, _)
InsertInt(s, x) ==
    IF s = <<>> THEN <<x>>
    ELSE IF x < s[1] THEN <<x>> \o s
    ELSE <<s[1]>> \o InsertInt(Tail(s), x)

RECURSIVE SortInts(_)
SortInts(s) == IF s = <<>> THEN <<>> ELSE InsertInt(SortInts(Tail(s)), s[1])

\* twice np.median of a non-empty list
Median2(s) ==
    LET t == SortInts(s)
        n == Len(s)
    IN IF n % 2 = 1 THEN 2 * t[(n + 1) \div 2]
       ELSE t[n \div 2] + t[n \div 2 + 1]

\* ModifiedZScoreDetector.detect: threshold 3.5
ModifiedZScoreDetector_detect(values) ==
    IF Len(values) < 3 THEN <<>>
    ELSE LET idx == [i \in 1..Len(values) |-> i]
             \* 2 * |value - median|
             dev2 == [i \in 1..Len(values) |-> Abs(2 * values[i] - Median2(values))]
             median_ad == Frac(Median2(dev2), 4)
             mean_ad == Frac(SumSeq(dev2), 2 * Len(values))
             mad == IF median_ad.num = 0 THEN mean_ad ELSE median_ad
             mod_z(i) == FracDiv(FracMul(Frac(6745, 10000), Frac(dev2[i], 2)), mad)
         IN IF mad.num = 0 THEN <<>>
            ELSE MapSeq(SelectSeq(idx, LAMBDA i : FracGT(mod_z(i), Frac(7, 2))),
                        LAMBDA i :
                            StatDetection(i - 1, values[i], "modified_zscore",
                                calculate_confidence(mod_z(i), Frac(7, 2), Frac(1, 2)),
                                NoFrac))

\* np.percentile(arr, 25 * quarter): linear interpolation between the order
\* statistics
Percentile(values, quarter) ==
    LET t == SortInts(values)
        pos == quarter * (Len(values) - 1)
        lo == pos \div 4 + 1
        hi == IF lo < Len(values) THEN lo + 1 ELSE lo
    IN Frac(4 * t[lo] + (pos % 4) * (t[hi] - t[lo]), 4)

FracSub(f, g) == Frac(f.num * g.den - g.num * f.den, f.den * g.den)

\* IQRDetector.detect: multiplier 1.5
IQRDetector_detect(values) ==
    IF Len(values) < 4 THEN <<>>
    ELSE LET idx == [i \in 1..Len(values) |-> i]
             q1 == Percentile(values, 1)
             q3 == Percentile(values, 3)
             iqr == FracSub(q3, q1)
             lower_bound == FracSub(q1, FracMul(Frac(3, 2), iqr))
             upper_bound == FracAdd(q3, FracMul(Frac(3, 2), iqr))
             below(i) == FracGT(lower_bound, Frac(values[i], 1))
             above(i) == FracGT(Frac(values[i], 1), upper_bound)
             deviation(i) == IF below(i) THEN FracSub(lower_bound, Frac(values[i], 1))
                             ELSE FracSub(Frac(values[i], 1), upper_bound)
         IN IF iqr.num = 0 THEN <<>>
            ELSE MapSeq(SelectSeq(idx, LAMBDA i : below(i) \/ above(i)),
                        LAMBDA i :
                            StatDetection(i - 1, values[i], "iqr",
                                calculate_confidence(deviation(i), iqr, Frac(1, 1)),
                                NoFrac))

\* a CUSUM sum a / (n * std) - l * drift kept as the pair (a, l): a the sum
\* of n * (value - mean) and l the number of steps since it was last zero
CusumStep(c, d, v) ==
    LET a == c.a + d
        l == c.l + 1
    IN IF a > 0 /\ 4 * a * a > l * l * v THEN [a |-> a, l |-> l]
       ELSE [a |-> 0, l |-> 0]

\* cusum > threshold, threshold 5.0 and drift 0.5
CusumExceeds(c, v) == c.a > 0 /\ 4 * c.a * c.a > (10 + c.l) * (10 + c.l) * v

\* the sum in tenths
CusumTenths(c, v) == ISqrt((100 * c.a * c.a) \div v) - 5 * c.l

RECURSIVE CusumScan(_, _, _, _)
CusumScan(values, i, cusum_pos, cusum_neg) ==
    IF i > Len(values) THEN <<>>
    ELSE LET v == VarianceN2(values)
             pos == CusumStep(cusum_pos, DeviationN(values, i), v)
             neg == CusumStep(cusum_neg, -DeviationN(values, i), v)
             cusum_value == IF CusumTenths(pos, v) >= CusumTenths(neg, v)
                            THEN CusumTenths(pos, v) ELSE CusumTenths(neg, v)
         IN IF CusumExceeds(pos, v) \/ CusumExceeds(neg, v)
            THEN <<StatDetection(i - 1, values[i], "cusum",
                       calculate_confidence(Frac(cusum_value, 10), Frac(5, 1),
                                            Frac(3, 10)),
                       NoFrac)>>
                 \o CusumScan(values, i + 1, [a |-> 0, l |-> 0], [a |-> 0, l |-> 0])
            ELSE CusumScan(values, i + 1, pos, neg)

\* CUSUMDetector.detect
CUSUMDetector_detect(values) ==
    IF Len(values) < 5 \/ VarianceN2(values) = 0 THEN <<>>
    ELSE CusumScan(values, 1, [a |-> 0, l |-> 0], [a |-> 0, l |-> 0])

\* the indices of a list of detections in order of first appearance
RECURSIVE IndicesInOrder(_, _)
IndicesInOrder(detections, seen) ==
    IF detections = <<>> THEN <<>>
    ELSE IF detections[1].index \in seen
         THEN IndicesInOrder(Tail(detections), seen)
         ELSE <<detections[1].index>>
                  \o IndicesInOrder(Tail(detections), seen \cup {detections[1].index})

\* EnsembleStatisticalDetector.detect
EnsembleStatisticalDetector_detect(values, min_consensus) ==
    LET all == ZScoreDetector_detect(values) \o ModifiedZScoreDetector_detect(values)
                   \o IQRDetector_detect(values) \o CUSUMDetector_detect(values)
        group(idx) == SelectSeq(all, LAMBDA d : d.index = idx)
        agreed == SelectSeq(IndicesInOrder(all, {}),
                            LAMBDA idx : Len(group(idx)) >= min_consensus)
    IN MapSeq(agreed, LAMBDA idx :
           [index                 |-> idx,
            value                 |-> group(idx)[1].value,
            confidence            |-> SumOver(group(idx), LAMBDA d : d.confidence)
                                          \div Len(group(idx)),
            consensus_count       |-> Len(group(idx)),
            methods               |-> MapSeq(group(idx), LAMBDA d : d.method),
            individual_detections |-> group(idx),
            method                |-> "ensemble"])

\* StatisticalAgent.analyze on the series of one (source, metric), the
\* timestamps being the positions in the series
statistical_agent_anomalies(values) ==
    LET detections == EnsembleStatisticalDetector_detect(values, 2)
        kept == SelectSeq(detections,
                    LAMBDA d : d.confidence * ConfOne >= StatisticalMinConfidence * 1000)
    IN MapSeq(kept, LAMBDA d :
           LET sev == calculate_severity(Float(d.confidence, 1000), Float(0, 1),
                                         Float(1, 1), FALSE)
           IN [agent                 |-> "StatisticalAgent",
               timestamp             |-> d.index,
               value                 |-> d.value,
               confidence            |-> d.confidence,
               severity              |-> sev.label,
               severity_score        |-> sev.score,
               detection_methods     |-> d.methods,
               consensus_count       |-> d.consensus_count,
               individual_detections |-> d.individual_detections])

(***************************************************************************)
(* SpecStatistical: the detectors and then the StatisticalAgent run on one *)
(* series, a series of ordinary readings with one reading replaced.        *)
(***************************************************************************)

\* the series of the point-outlier scenario
OutlierSeries == <<10, 12, 11, 10, 11, 12, 50, 11, 10, 12>>

\* the same readings without the outlier, continued by two more
PlainSeries == <<10, 12, 11, 10, 11, 12, 11, 11, 10, 12, 11, 10>>

\* the values put in place of a reading
Replacements == {0, 11, 13, 15, 20, 50, 100}

\* lengths of the series tried, up to the length of PlainSeries
SeriesLengths == {2, 3, 4, 5, 10, 11, 12}

\* a sustained shift of the level after three quarters of the series, and
\* the same with a dip
ShiftSeries(low, high) == [i \in 1..20 |-> IF i > 15 THEN high ELSE low]

SeriesInputs ==
    {[i \in 1..n |-> IF i = k THEN v ELSE PlainSeries[i]] :
        n \in SeriesLengths, k \in {1, 2, 7}, v \in Replacements}
    \cup {ShiftSeries(10, 20), ShiftSeries(20, 10), ShiftSeries(10, 11)}

StatisticalInit ==
    /\ Fresh
    /\ fn_args \in {[values |-> s] : s \in {t \in SeriesInputs : Len(t) >= 2}}
    /\ fn_result = <<>>

\* detections = self.detector.detect(values, timestamps, min_consensus=2),
\* with what the Z-score detector contributed to it
DetectStatistical ==
    /\ fn_result = <<>>
    /\ fn_result' = [stage     |-> "detected",
                     zscore    |-> ZScoreDetector_detect(fn_args.values),
                     ensemble  |-> EnsembleStatisticalDetector_detect(fn_args.values, 2),
                     anomalies |-> <<>>]
    /\ UNCHANGED <<fn_args, kg, now, cycle_vars, api_vars, alt_vars, loop_vars>>

\* the anomalies StatisticalAgent.analyze returns
AnalyzeStatistical ==
    /\ fn_result # <<>>
    /\ fn_result.stage = "detected"
    /\ fn_result' = [fn_result EXCEPT
                       !.stage = "analyzed",
                       !.anomalies = statistical_agent_anomalies(fn_args.values)]
    /\ UNCHANGED <<fn_args, kg, now, cycle_vars, api_vars, alt_vars, loop_vars>>

StatisticalNext == DetectStatistical \/ AnalyzeStatistical

SpecStatistical == StatisticalInit /\ [][StatisticalNext]_vars

StatisticalDetected == fn_result # <<>>

StatisticalAnalyzed == fn_result # <<>> /\ fn_result.stage = "analyzed"

RECURSIVE FracSum(_)
FracSum(s) == IF s = <<>> THEN Frac(0, 1) ELSE FracAdd(s[1], FracSum(Tail(s)))

\* the mean and the population variance of a series, as fractions
MeanOf(values) == Frac(SumSeq(values), Len(values))

PopulationVariance(values) ==
    FracDiv(FracSum([i \in 1..Len(values) |->
                        FracMul(FracSub(Frac(values[i], 1), MeanOf(values)),
                                FracSub(Frac(values[i], 1), MeanOf(values)))]),
            Frac(Len(values), 1))

\* |values[i] - mean| / population stddev > threshold, on the squares
ZScoreAbove(values, i, threshold) ==
    /\ PopulationVariance(values).num # 0
    /\ FracGT(FracMul(FracSub(Frac(values[i], 1), MeanOf(values)),
                      FracSub(Frac(values[i], 1), MeanOf(values))),
              FracMul(Frac(threshold * threshold, 1), PopulationVariance(values)))

\* the Z-score detector flags index i iff the z_score of values[i] is above
\* the threshold (series of fewer than three values are not examined)
ZScoreRule ==
    StatisticalDetected =>
        \A i \in 1..Len(fn_args.values) :
            (\E k \in 1..Len(fn_result.zscore) : fn_result.zscore[k].index = i - 1)
                <=> (Len(fn_args.values) >= 3
                       /\ ZScoreAbove(fn_args.values, i, ZScoreThreshold))

Slice(arr, start, end) == SubSeq(arr, start + 1, end)

\* np.var(x) * len(x): the sum of squared deviations from the mean
VarTimesLen(x) ==
    Frac(Len(x) * SumSeq([i \in 1..Len(x) |-> x[i] * x[i]]) - SumSeq(x) * SumSeq(x),
         Len(x))

\* the penalty ChangePointDetector is constructed with by default
DefaultPenalty == 10

\* cost = total_var - split_var - self.penalty for the split at i
split_cost(arr, start, end, i, penalty) ==
    FracSub(FracSub(VarTimesLen(Slice(arr, start, end)),
                    FracAdd(VarTimesLen(Slice(arr, start, i)),
                            VarTimesLen(Slice(arr, i, end)))),
            Frac(penalty, 1))

\* the loop of find_best_split from candidate i on; best.cost = NoFrac is
\* float('inf')
RECURSIVE best_split_from(_, _, _, _, _, _, _)
best_split_from(arr, start, end, min_size, penalty, i, best) ==
    IF i >= end - min_size THEN best
    ELSE LET cost == split_cost(arr, start, end, i, penalty)
         IN  best_split_from(arr, start, end, min_size, penalty, i + 1,
                 IF best.cost = NoFrac \/ FracGT(best.cost, cost)
                 THEN [idx |-> i, cost |-> cost]
                 ELSE best)

find_best_split(arr, start, end, min_size, penalty) ==
    best_split_from(arr, start, end, min_size, penalty, start + min_size,
                    [idx |-> start + min_size, cost |-> NoFrac])

\* if cost < -self.penalty: the split is taken
split_accepted(cost, penalty) ==
    /\ cost # NoFrac
    /\ FracGT(Frac(-penalty, 1), cost)

\* the change-points segment(start, end) appends, in the order it appends them
RECURSIVE segment(_, _, _, _, _)
segment(arr, start, end, min_size, penalty) ==
    IF end - start < min_size * 2 THEN <<>>
    ELSE LET best == find_best_split(arr, start, end, min_size, penalty)
         IN  IF split_accepted(best.cost, penalty)
             THEN <<best.idx>>
                      \o segment(arr, start, best.idx, min_size, penalty)
                      \o segment(arr, best.idx, end, min_size, penalty)
             ELSE <<>>

detect_changepoints(arr, min_size, penalty) ==
    IF Len(arr) < min_size * 2 THEN <<>>
    ELSE SortInts(segment(arr, 0, Len(arr), min_size, penalty))

Max(a, b) == IF a > b THEN a ELSE b

\* ChangePointDetector.detect: one anomaly per change-point, with the means of
\* the min_size values before and after it
ChangePointDetector_detect(values, min_size, penalty) ==
    IF Len(values) < min_size * 2 THEN <<>>
    ELSE LET changepoints == detect_changepoints(values, min_size, penalty)
         IN  [k \in 1..Len(changepoints) |->
                LET cp_idx == changepoints[k]
                    before == Slice(values, Max(0, cp_idx - min_size), cp_idx)
                    after  == Slice(values, cp_idx,
                                    Min(Len(values), cp_idx + min_size))
                IN  [index       |-> cp_idx,
                     value       |-> values[cp_idx + 1],
                     mean_before |-> Frac(SumSeq(before), Len(before)),
                     mean_after  |-> Frac(SumSeq(after), Len(after)),
                     method      |-> "changepoint",
                     type        |-> "regime_change"]]

\* ---------------------------------------------------------------------------
\* Specification SpecChangePoint: the detector applied to two-level series
\* ---------------------------------------------------------------------------

MaxLevel == 3
MaxMinSize == 2
MaxRunSlack == 1

\* a constant run of la values a followed by a constant run of lb values b
TwoRuns(a, la, b, lb) == [i \in 1..(la + lb) |-> IF i <= la THEN a ELSE b]

ChangePointInputs ==
    {[values   |-> TwoRuns(a, 2 * m + da, b, 2 * m + db),
      min_size |-> m,
      penalty  |-> p,
      split    |-> 2 * m + da] :
        a \in 0..MaxLevel, b \in 0..MaxLevel, m \in 1..MaxMinSize,
        da \in 0..MaxRunSlack, db \in 0..MaxRunSlack,
        p \in {0, 1, DefaultPenalty}}

ChangePointInit ==
    /\ Fresh
    /\ fn_args \in ChangePointInputs
    /\ fn_result = <<>>

\* anomalies = detector.detect(values)
DetectChangePoints ==
    /\ fn_result = <<>>
    /\ fn_result' = [stage     |-> "changepoints",
                     anomalies |-> ChangePointDetector_detect(
                                       fn_args.values, fn_args.min_size,
                                       fn_args.penalty)]
    /\ UNCHANGED <<fn_args, kg, now, cycle_vars, api_vars, alt_vars, loop_vars>>

ChangePointNext == DetectChangePoints

SpecChangePoint == ChangePointInit /\ [][ChangePointNext]_vars

ChangePointDetected == fn_result # <<>> /\ fn_result.stage = "changepoints"

\* the two runs of the series differ in value and each is at least
\* 2 * min_size long
RegimeChange ==
    /\ fn_args.values[1] # fn_args.values[Len(fn_args.values)]
    /\ fn_args.split >= 2 * fn_args.min_size
    /\ Len(fn_args.values) - fn_args.split >= 2 * fn_args.min_size

\* C21: for a constant run followed by a constant run of a different value,
\* each at least 2*min_size long, detect returns at least one change-point
C21_RegimeChangeDetected ==
    (ChangePointDetected /\ RegimeChange) => fn_result.anomalies # <<>>

\* the detector has run on such a series with the default penalty
C21_Witness ==
    /\ ChangePointDetected
    /\ RegimeChange
    /\ fn_args.penalty = DefaultPenalty
    /\ fn_args.values = TwoRuns(1, 4, 2, 4)
    /\ fn_args.min_size = 2

\* ---------------------------------------------------------------------------
\* Graph queries (knowledge_graph/graph_manager.py)
\* ---------------------------------------------------------------------------

\* self.graph.neighbors(u): the successors of u in the order the adjacency
\* of the graph lists them
neighbors(g, order, u) ==
    SelectSeq(order, LAMBDA v : <<u, v>> \in DOMAIN g.edges)

\* the body of the loop over the neighbours of current; st holds visited,
\* related and queue
RECURSIVE related_visit(_, _, _, _, _, _, _)
related_visit(g, nbrs, current, distance, path, min_confidence, st) ==
    IF nbrs = <<>> THEN st
    ELSE LET neighbor == Head(nbrs)
             edge_data == g.edges[<<current, neighbor>>]
             new_path == Append(path, <<current, neighbor, edge_data.type>>)
         IN  related_visit(g, Tail(nbrs), current, distance, path, min_confidence,
                 IF neighbor \in st.visited
                    \/ ~(edge_data.confidence >= min_confidence)
                 THEN st
                 ELSE [visited |-> st.visited \cup {neighbor},
                       related |-> Append(st.related,
                                      [anomaly_id        |-> neighbor,
                                       distance          |-> distance + 1,
                                       path              |-> new_path,
                                       relationship_type |-> edge_data.type,
                                       confidence        |-> edge_data.confidence]),
                       queue   |-> Append(st.queue,
                                      [node     |-> neighbor,
                                       distance |-> distance + 1,
                                       path     |-> new_path])])

\* while queue: current, distance, path = queue.pop(0) ...
RECURSIVE related_bfs(_, _, _, _, _)
related_bfs(g, order, max_distance, min_confidence, st) ==
    IF st.queue = <<>> THEN st.related
    ELSE LET item == Head(st.queue)
             rest == [st EXCEPT !.queue = Tail(st.queue)]
         IN  IF item.distance >= max_distance
             THEN related_bfs(g, order, max_distance, min_confidence, rest)
             ELSE related_bfs(g, order, max_distance, min_confidence,
                      related_visit(g, neighbors(g, order, item.node), item.node,
                                    item.distance, item.path, min_confidence, rest))

\* the traversal with the distance test off by one
find_related_one_hop_further(g, order, anomaly_id, max_distance, min_confidence) ==
    IF anomaly_id \notin NodeIds(g) THEN <<>>
    ELSE related_bfs(g, order, max_distance + 1, min_confidence,
                     [visited |-> {anomaly_id},
                      related |-> <<>>,
                      queue   |-> <<[node |-> anomaly_id, distance |-> 0,
                                     path |-> <<>>]>>])

find_related_anomalies(g, order, anomaly_id, max_distance, min_confidence) ==
    IF anomaly_id \notin NodeIds(g) THEN <<>>
    ELSE related_bfs(g, order, max_distance, min_confidence,
                     [visited |-> {anomaly_id},
                      related |-> <<>>,
                      queue   |-> <<[node |-> anomaly_id, distance |-> 0,
                                     path |-> <<>>]>>])

\* dfs(current, path, visited) of find_causal_chain and its loop over the
\* neighbours; a path is kept as the sequence of its anomaly ids, and the
\* result is the chains in the order they are appended
RECURSIVE chain_dfs(_, _, _, _, _, _, _)
RECURSIVE chain_visit(_, _, _, _, _, _, _, _)
chain_dfs(g, order, current, path, visited, end_anomaly, max_length) ==
    IF Len(path) >= max_length THEN <<>>
    ELSE IF end_anomaly # NoKey /\ current = end_anomaly THEN <<path>>
    ELSE chain_visit(g, order, neighbors(g, order, current), current, path,
                     visited, end_anomaly, max_length)
         \o (IF end_anomaly = NoKey /\ Len(path) > 1 THEN <<path>> ELSE <<>>)

chain_visit(g, order, nbrs, current, path, visited, end_anomaly, max_length) ==
    IF nbrs = <<>> THEN <<>>
    ELSE LET neighbor == Head(nbrs)
         IN  (IF neighbor \in visited
                 \/ g.edges[<<current, neighbor>>].type # "causal"
              THEN <<>>
              ELSE chain_dfs(g, order, neighbor, Append(path, neighbor),
                             visited \cup {neighbor}, end_anomaly, max_length))
             \o chain_visit(g, order, Tail(nbrs), current, path, visited,
                            end_anomaly, max_length)

find_causal_chain(g, order, start_anomaly, end_anomaly, max_length) ==
    IF start_anomaly \notin NodeIds(g) THEN <<>>
    ELSE chain_dfs(g, order, start_anomaly, <<start_anomaly>>, {start_anomaly},
                   end_anomaly, max_length)

\* ---------------------------------------------------------------------------
\* Specification SpecGraphQuery: the queries on small graphs
\* ---------------------------------------------------------------------------

MaxDistance == 2
MaxChain == 3

GraphNodes == {"a", "b", "c"}

\* the default min_confidence 0.5, in hundredths
DefaultMinConfidence == 50

\* an edge is absent, causal with confidence 0.5, or temporal with 0.3
NoEdge == [type |-> "none", confidence |-> 0]
EdgeChoices ==
    {NoEdge, [type |-> "causal", confidence |-> 50],
             [type |-> "temporal", confidence |-> 30]}

QueryPairs ==
    {<<"a", "a">>} \cup {p \in GraphNodes \X GraphNodes : p[1] # p[2]}

\* the self-loop on a is absent or causal, every other edge one of EdgeChoices
QueryGraphs(ids) ==
    {[nodes |-> [n \in ids |-> [id |-> n]],
      edges |-> Restrict(choice, {p \in QueryPairs : choice[p] # NoEdge})] :
        choice \in {c \in [QueryPairs -> EdgeChoices] :
                       c[<<"a", "a">>].type # "temporal"}}

NeighborOrders == {<<"a", "b", "c">>, <<"c", "b", "a">>}

Query(op, g, o, i, t, k) ==
    [op |-> op, graph |-> g, order |-> o, id |-> i, target |-> t, limit |-> k,
     min_confidence |-> DefaultMinConfidence]

\* queries from node a, and one query each for an id the graph does not have
QueryInputs(ids) ==
    {Query("related", g, o, "a", NoKey, k) :
        g \in QueryGraphs(ids), o \in NeighborOrders, k \in 0..MaxDistance}
    \cup
    {Query("chain", g, o, "a", t, k) :
        g \in QueryGraphs(ids), o \in NeighborOrders, t \in {NoKey, "a", "c"},
        k \in 1..MaxChain}
    \cup
    {Query(op, g, o, "zz", NoKey, 2) :
        op \in {"related", "chain"}, g \in QueryGraphs(ids),
        o \in NeighborOrders}

QueryInit ==
    /\ Fresh
    /\ fn_args \in QueryInputs(GraphNodes)
    /\ fn_result = <<>>

FindRelated ==
    /\ fn_result = <<>>
    /\ fn_args.op = "related"
    /\ fn_result' = [op      |-> "related",
                     related |-> find_related_anomalies(
                                     fn_args.graph, fn_args.order, fn_args.id,
                                     fn_args.limit, fn_args.min_confidence)]
    /\ UNCHANGED <<fn_args, kg, now, cycle_vars, api_vars, alt_vars, loop_vars>>

FindCausalChain ==
    /\ fn_result = <<>>
    /\ fn_args.op = "chain"
    /\ fn_result' = [op     |-> "chain",
                     chains |-> find_causal_chain(
                                    fn_args.graph, fn_args.order, fn_args.id,
                                    fn_args.target, fn_args.limit)]
    /\ UNCHANGED <<fn_args, kg, now, cycle_vars, api_vars, alt_vars, loop_vars>>

QueryNext == FindRelated \/ FindCausalChain

SpecGraphQuery == QueryInit /\ [][QueryNext]_vars

RelatedFound == fn_result # <<>> /\ fn_result.op = "related"

\* the nodes within k hops of id along edges of confidence >= min_confidence
RECURSIVE Within(_, _, _, _)
Within(g, id, min_confidence, k) ==
    IF k = 0 THEN {id}
    ELSE LET W == Within(g, id, min_confidence, k - 1)
         IN  W \cup {v \in NodeIds(g) :
                       \E u \in W : /\ <<u, v>> \in DOMAIN g.edges
                                    /\ g.edges[<<u, v>>].confidence >= min_confidence}

HopDistance(g, id, min_confidence, v) ==
    CHOOSE k \in 0..Cardinality(NodeIds(g)) :
        /\ v \in Within(g, id, min_confidence, k)
        /\ k = 0 \/ v \notin Within(g, id, min_confidence, k - 1)

\* path is a sequence of existing edges leading from id to v
IsPath(g, path, id, v) ==
    /\ path # <<>>
    /\ path[1][1] = id
    /\ path[Len(path)][2] = v
    /\ \A i \in 1..Len(path) :
          /\ <<path[i][1], path[i][2]>> \in DOMAIN g.edges
          /\ g.edges[<<path[i][1], path[i][2]>>].type = path[i][3]
          /\ i > 1 => path[i][1] = path[i - 1][2]

\* C23: find_related_anomalies returns each node other than id at most once,
\* exactly the nodes within max_distance hops along edges of confidence >=
\* min_confidence, each with its shortest hop distance and a path of existing
\* edges from id to it; an unknown id gives an empty list
C23_RelatedIsBoundedReachability ==
    RelatedFound =>
        LET g == fn_args.graph
            r == fn_result.related
        IN  IF fn_args.id \notin NodeIds(g) THEN r = <<>>
            ELSE /\ \A i, j \in 1..Len(r) :
                       r[i].anomaly_id = r[j].anomaly_id => i = j
                 /\ {r[i].anomaly_id : i \in 1..Len(r)} =
                        Within(g, fn_args.id, fn_args.min_confidence,
                               fn_args.limit) \ {fn_args.id}
                 /\ \A i \in 1..Len(r) :
                       /\ r[i].distance =
                              HopDistance(g, fn_args.id, fn_args.min_confidence,
                                          r[i].anomaly_id)
                       /\ IsPath(g, r[i].path, fn_args.id, r[i].anomaly_id)

\* a node two hops away was found, past a self-loop and a weak edge
C23_Witness ==
    /\ RelatedFound
    /\ fn_args.id = "a"
    /\ fn_args.limit = 2
    /\ <<"a", "a">> \in DOMAIN fn_args.graph.edges
    /\ <<"a", "c">> \in DOMAIN fn_args.graph.edges
    /\ fn_args.graph.edges[<<"a", "c">>].confidence < fn_args.min_confidence
    /\ \E i \in 1..Len(fn_result.related) :
          /\ fn_result.related[i].anomaly_id = "c"
          /\ fn_result.related[i].distance = 2

ChainsFound == fn_result # <<>> /\ fn_result.op = "chain"

\* the simple paths from start along causal edges with exactly n nodes
RECURSIVE SimpleCausalPaths(_, _, _)
SimpleCausalPaths(g, start, n) ==
    IF n = 1 THEN {<<start>>}
    ELSE {Append(p, v) :
            p \in SimpleCausalPaths(g, start, n - 1),
            v \in NodeIds(g)} \cap
         {q \in UNION {[1..n -> NodeIds(g)]} :
            /\ \A i, j \in 1..n : q[i] = q[j] => i = j
            /\ <<q[n - 1], q[n]>> \in DOMAIN g.edges
            /\ g.edges[<<q[n - 1], q[n]>>].type = "causal"}

CausalPathsUpTo(g, start, max_length) ==
    UNION {SimpleCausalPaths(g, start, n) : n \in 1..max_length}

\* C24: with end set find_causal_chain returns exactly the simple causal paths
\* from start to end of at most max_len nodes; with end unset every simple
\* causal path from start of at least 2 and at most max_len nodes
C24_ChainsUpToMaxLen ==
    (ChainsFound /\ fn_args.id \in NodeIds(fn_args.graph)) =>
        Range(fn_result.chains) =
            IF fn_args.target # NoKey
            THEN {p \in CausalPathsUpTo(fn_args.graph, fn_args.id, fn_args.limit) :
                    p[Len(p)] = fn_args.target}
            ELSE {p \in CausalPathsUpTo(fn_args.graph, fn_args.id, fn_args.limit) :
                    Len(p) >= 2}

\* a causal path a -> b -> c exists and the query allowed three nodes
C24_Witness ==
    /\ ChainsFound
    /\ fn_args.id = "a"
    /\ fn_args.target = "c"
    /\ fn_args.limit = 3
    /\ <<"a", "b", "c">> \in CausalPathsUpTo(fn_args.graph, "a", 3)
    /\ <<"a", "b", "c">> \notin Range(fn_result.chains)

\* ---------------------------------------------------------------------------
\* Specification SpecConcurrent: two analyze cycles on one event loop
\* ---------------------------------------------------------------------------

\* collect_data_continuously and trigger_analysis, both coroutines of the
\* event loop of the API process
Coroutines == {"loop", "manual"}

ConcurrentBatches ==
    {<<StatPoint>>, <<ThresholdPoint>>, <<StatPoint, FarPoint>>,
     <<ThresholdPoint, GithubPoint>>}

\* whether the await at this point of AgentOrchestrator.analyze hands control
\* back to the event loop: asyncio.gather runs the agents as tasks of the
\* loop; awaiting the coroutine synthesize runs it inside the caller, and
\* synthesize awaits nothing but the coroutine _create_anomaly_report, which
\* awaits nothing
suspends_at_each_await(point) == point \in {"gather", "synthesize"}

suspends(point) == point = "gather"

ConcurrentInit ==
    /\ Init
    /\ fn_args = <<>>

\* a caller reaches orchestrator.analyze and runs it up to the gather
CallAnalyze(t) ==
    \E c \in ConcurrentBatches :
        /\ running = NoKey
        /\ t \notin DOMAIN tasks
        /\ tasks' = Put(tasks, t,
                        [pc            |-> "gather",
                         cur           |-> c,
                         agent_results |-> <<>>,
                         final         |-> [status |-> "running"],
                         published     |-> EmptyGraph,
                         overlapped    |-> \E u \in DOMAIN tasks :
                                              tasks[u].pc = "gather"])
        /\ running' = IF suspends("gather") THEN NoKey ELSE t
        /\ UNCHANGED <<kg, now, cycle_vars, api_vars, alt_vars, fn_vars, limiter>>

\* the event loop resumes a coroutine that it is executing already or that
\* waits at a point where it gave up control
MayRun(t) ==
    /\ t \in DOMAIN tasks
    /\ running \in {NoKey, t}

\* agent_results = await asyncio.gather(*agent_tasks) completes
GatherDone(t) ==
    /\ MayRun(t)
    /\ tasks[t].pc = "gather"
    /\ tasks' = [tasks EXCEPT
                   ![t].pc = "synthesize",
                   ![t].agent_results = run_agents(tasks[t].cur, <<>>, now)]
    /\ running' = t
    /\ UNCHANGED <<kg, now, cycle_vars, api_vars, alt_vars, fn_vars, limiter>>

\* final_results = await self.coordinator.synthesize(agent_results)
Synthesize(t) ==
    /\ MayRun(t)
    /\ tasks[t].pc = "synthesize"
    /\ LET s == synthesize(tasks[t].agent_results, kg, now)
       IN  IF s.raised
           THEN /\ tasks' = [tasks EXCEPT ![t].pc = "raised",
                                          ![t].final = s.result]
                /\ running' = NoKey
                /\ UNCHANGED kg
           ELSE /\ tasks' = [tasks EXCEPT ![t].pc = "export",
                                          ![t].final = s.result,
                                          ![t].published = s.kg]
                /\ running' = IF suspends("synthesize") THEN NoKey ELSE t
                /\ kg' = s.kg
    /\ UNCHANGED <<now, cycle_vars, api_vars, alt_vars, fn_vars, limiter>>

\* final_results['knowledge_graph'] = self.knowledge_graph.export_graph();
\* analyze returns and its caller goes on to await the broadcast
ExportGraph(t) ==
    /\ MayRun(t)
    /\ tasks[t].pc = "export"
    /\ tasks' = [tasks EXCEPT ![t].pc = "done",
                              ![t].final = WithGraph(tasks[t].final, kg)]
    /\ running' = NoKey
    /\ UNCHANGED <<kg, now, cycle_vars, api_vars, alt_vars, fn_vars, limiter>>

ConcurrentTick ==
    /\ now < 100000 + MaxTicks
    /\ now' = now + 1
    /\ UNCHANGED <<kg, cycle_vars, api_vars, alt_vars, fn_vars, loop_vars>>

ConcurrentNext ==
    \/ \E t \in Coroutines : CallAnalyze(t)
    \/ \E t \in Coroutines : GatherDone(t)
    \/ \E t \in Coroutines : Synthesize(t)
    \/ \E t \in Coroutines : ExportGraph(t)
    \/ ConcurrentTick

SpecConcurrent == ConcurrentInit /\ [][ConcurrentNext]_vars

\* C22: the graph mutations and the export of one cycle are not interleaved
\* with those of another cycle in flight: between a cycle's publish and its
\* export no other coroutine runs, and the knowledge_graph of its result is
\* the graph as it was right after its own publish and relationship derivation
C22_GraphAccessSerialized ==
    \A t \in DOMAIN tasks :
        /\ tasks[t].pc = "export" => running = t
        /\ tasks[t].pc = "done" =>
              tasks[t].final.knowledge_graph = export_graph(tasks[t].published)

\* both cycles were in flight at once, both have returned, and the graph has
\* changed since the first of them exported it
C22_Witness ==
    /\ DOMAIN tasks = Coroutines
    /\ \A t \in Coroutines : tasks[t].pc = "done"
    /\ tasks["manual"].overlapped
    /\ tasks["loop"].final.knowledge_graph # export_graph(kg)
    /\ tasks["manual"].final.knowledge_graph = export_graph(kg)

\* ---------------------------------------------------------------------------
\* Severity of the StatisticalAgent anomalies (under SpecStatistical)
\* ---------------------------------------------------------------------------

\* the 'deviation' a detector stores for values[i] when it flags it:
\* |value - mean| for zscore and cusum, |value - median| for modified_zscore,
\* the distance beyond the nearer IQR bound for iqr
DeviationMeasured(method, values, i) ==
    IF method \in {"zscore", "cusum"}
    THEN Frac(Abs(Len(values) * values[i] - SumSeq(values)), Len(values))
    ELSE IF method = "modified_zscore"
    THEN Frac(Abs(2 * values[i] - Median2(values)), 2)
    ELSE LET q1 == Percentile(values, 1)
             q3 == Percentile(values, 3)
             iqr == FracSub(q3, q1)
             lower_bound == FracSub(q1, FracMul(Frac(3, 2), iqr))
             upper_bound == FracAdd(q3, FracMul(Frac(3, 2), iqr))
         IN  IF FracGT(lower_bound, Frac(values[i], 1))
             THEN FracSub(lower_bound, Frac(values[i], 1))
             ELSE FracSub(Frac(values[i], 1), upper_bound)

\* severity_score = 0.4*confidence + 0.3*min(d/10, 1) + 0.04 for deviation d
SeverityWithDeviation(confidence, d) ==
    calculate_severity(Float(confidence, 1000), RoundFloat(d), Float(1, 1), FALSE)

\* C25: every StatisticalAgent anomaly has severity_score = 0.4*confidence +
\* 0.3*min(d/10, 1) + 0.04 for the deviation d measured by a detector that
\* flagged it, and a deviation of 10 or more by every such detector lifts the
\* label above low
C25_SeverityFollowsDeviation ==
    StatisticalAnalyzed =>
        \A k \in 1..Len(fn_result.anomalies) :
            LET a == fn_result.anomalies[k]
                methods == Range(a.detection_methods)
                d(m) == DeviationMeasured(m, fn_args.values, a.timestamp + 1)
            IN  /\ \E m \in methods :
                      a.severity_score =
                          SeverityWithDeviation(a.confidence, d(m)).score
                /\ (\A m \in methods : FracGE(d(m), Frac(10, 1)))
                      => a.severity # "low"

\* the reading 100 among readings of 10 to 12 was reported, with label low
C25_Witness ==
    /\ StatisticalAnalyzed
    /\ \E k \in 1..Len(fn_result.anomalies) :
          /\ fn_result.anomalies[k].value = 100
          /\ fn_result.anomalies[k].severity = "low"
          /\ \A m \in Range(fn_result.anomalies[k].detection_methods) :
                FracGE(DeviationMeasured(m, fn_args.values,
                                         fn_result.anomalies[k].timestamp + 1),
                       Frac(10, 1))

\* ---------------------------------------------------------------------------
\* RateLimiter (utils/helpers.py) and the tasks of CryptoClient.fetch_data
\* ---------------------------------------------------------------------------

\* RateLimiter(max_calls=50, time_window=60), scaled down; the clock counts
\* seconds in this specification
RateMaxCalls == 2
RateWindow == 2
MaxRateTicks == 3

\* self.calls = [call for call in self.calls if call > cutoff]
prune_calls(self_calls, clock, time_window) ==
    SelectSeq(self_calls, LAMBDA call : call > clock - time_window)

\* RateLimiter.can_proceed: the pruned list and the answer
can_proceed(self_calls, clock, max_calls, time_window) ==
    LET kept == prune_calls(self_calls, clock, time_window)
    IN  [calls |-> kept, answer |-> Len(kept) < max_calls]

\* RateLimiter.record_call
record_call(self_calls, clock) == Append(self_calls, clock)

\* the symbols fetch_data gathers one _fetch_symbol_data task for
Symbols == {"bitcoin", "ethereum", "solana"}

RateInit ==
    /\ Init
    /\ fn_args = <<>>

\* if not self.rate_limiter.can_proceed(): ... await asyncio.sleep(1)
CheckRateLimit(t) ==
    LET c == can_proceed(limiter.calls, now, RateMaxCalls, RateWindow)
    IN  /\ t \notin DOMAIN tasks
        /\ limiter' = [limiter EXCEPT
                         !.calls = c.calls,
                         !.answers = Append(limiter.answers,
                                            [answer  |-> c.answer,
                                             younger |-> Cardinality(
                                                 {i \in 1..Len(limiter.recorded) :
                                                    limiter.recorded[i] >
                                                        now - RateWindow})])]
        /\ tasks' = Put(tasks, t,
                        [pc      |-> IF c.answer THEN "request" ELSE "sleep",
                         since   |-> now,
                         allowed |-> c.answer])
        /\ UNCHANGED <<kg, now, cycle_vars, api_vars, alt_vars, fn_vars, running>>

\* the sleep of one second is over; the request is sent without a second look
\* at the limiter
WakeUp(t) ==
    /\ t \in DOMAIN tasks
    /\ tasks[t].pc = "sleep"
    /\ now >= tasks[t].since + 1
    /\ tasks' = [tasks EXCEPT ![t].pc = "request"]
    /\ UNCHANGED <<kg, now, cycle_vars, api_vars, alt_vars, fn_vars, running, limiter>>

\* response = await client.get(...) returns; self.rate_limiter.record_call()
RequestReturns(t) ==
    /\ t \in DOMAIN tasks
    /\ tasks[t].pc = "request"
    /\ limiter' = [limiter EXCEPT
                     !.calls = record_call(limiter.calls, now),
                     !.recorded = Append(limiter.recorded, now)]
    /\ tasks' = [tasks EXCEPT ![t].pc = "done"]
    /\ UNCHANGED <<kg, now, cycle_vars, api_vars, alt_vars, fn_vars, running>>

\* client.get raises: the except clause logs it and nothing is recorded
RequestRaises(t) ==
    /\ t \in DOMAIN tasks
    /\ tasks[t].pc = "request"
    /\ tasks' = [tasks EXCEPT ![t].pc = "failed"]
    /\ UNCHANGED <<kg, now, cycle_vars, api_vars, alt_vars, fn_vars, running, limiter>>

RateTick ==
    /\ now < 100000 + MaxRateTicks
    /\ now' = now + 1
    /\ UNCHANGED <<kg, cycle_vars, api_vars, alt_vars, fn_vars, loop_vars>>

RateNext ==
    \/ \E t \in Symbols : CheckRateLimit(t)
    \/ \E t \in Symbols : WakeUp(t)
    \/ \E t \in Symbols : RequestReturns(t)
    \/ \E t \in Symbols : RequestRaises(t)
    \/ RateTick

SpecRateLimiter == RateInit /\ [][RateNext]_vars

\* the recorded calls in the window of length RateWindow that ends at instant e
RecordedIn(e) ==
    {i \in 1..Len(limiter.recorded) :
        limiter.recorded[i] > e - RateWindow /\ limiter.recorded[i] <= e}

\* C26: can_proceed answers true iff fewer than max_calls recorded calls are
\* younger than time_window, and at no time do more than max_calls recorded
\* calls of the client tasks lie within an interval of length time_window
C26_RateBound ==
    /\ \A k \in 1..Len(limiter.answers) :
          limiter.answers[k].answer <=> limiter.answers[k].younger < RateMaxCalls
    /\ \A e \in 100000..(100000 + MaxRateTicks) :
          Cardinality(RecordedIn(e)) <= RateMaxCalls

\* three tasks were let through by can_proceed and recorded their calls in
\* the same second
C26_Witness ==
    /\ DOMAIN tasks = Symbols
    /\ \A t \in Symbols : tasks[t].pc = "done" /\ tasks[t].allowed
    /\ Cardinality(RecordedIn(now)) = 3

\* ---------------------------------------------------------------------------
\* The three stores of the knowledge graph (under Spec)
\* ---------------------------------------------------------------------------

\* node_timestamps[id]
TimestampOf(g, id) ==
    LET i == CHOOSE k \in 1..Len(g.node_timestamps) : g.node_timestamps[k][1] = id
    IN  g.node_timestamps[i][2]

\* C27: in every state reachable by add_anomaly and add_relationship calls
\* the graph nodes, the keys of signatures and the keys of node_timestamps are
\* the same set, and each node's timestamp attribute is node_timestamps of
\* its id
C27_StoresAgree ==
    /\ NodeIds(kg) = DOMAIN kg.signatures
    /\ NodeIds(kg) = DictKeys(kg.node_timestamps)
    /\ Len(kg.node_timestamps) = Cardinality(NodeIds(kg))
    /\ \A id \in NodeIds(kg) : kg.nodes[id].timestamp = TimestampOf(kg, id)

\* an add_anomaly call has evicted a node together with an edge, and a
\* later call has had no missing endpoint
C27_Witness ==
    /\ last.op = "add_relationship"
    /\ ~last.missing
    /\ Cardinality(NodeIds(kg)) = max_nodes
    /\ \E p \in added : p[1] \notin NodeIds(kg)

\* ---------------------------------------------------------------------------
\* AnomalyTracer.trace_root_cause (knowledge_graph/anomaly_tracer.py)
\* ---------------------------------------------------------------------------

\* the predecessors of id over an edge of type causal
causal_predecessors(g, id) ==
    {p \in NodeIds(g) : /\ <<p, id>> \in EdgeKeys(g)
                        /\ g.edges[<<p, id>>].type = "causal"}

\* min(causal_predecessors, key=timestamp): a predecessor no other one is
\* earlier than; among equally early ones the first one the graph lists
earliest_predecessors(g, id) ==
    {p \in causal_predecessors(g, id) :
        \A q \in causal_predecessors(g, id) :
            g.nodes[p].timestamp <= g.nodes[q].timestamp}

\* ---------------------------------------------------------------------------
\* Specification SpecTrace: analyze cycles, then one root-cause trace
\* ---------------------------------------------------------------------------

\* readings of two sources in one second, flagged by the statistical
\* ensemble with confidence 0.7
LatencyEarly == Point("sensor", "latency", 70, 400100, 210, 0, 0)
ErrorsLate   == Point("api", "errors", 9, 400500, 210, 0, 0)
ErrorsEarly  == Point("api", "errors", 9, 400300, 210, 0, 0)
LatencyLate  == Point("sensor", "latency", 70, 400700, 210, 0, 0)

\* the next reading of sensor/latency, one minute on and flagged as well
LatencyNext == Point("sensor", "latency", 80, 460100, 210, 0, 0)

TraceBatches ==
    {<<LatencyEarly>>, <<ErrorsLate>>, <<LatencyEarly, ErrorsLate>>,
     <<ErrorsEarly, LatencyLate>>, <<ErrorsLate, LatencyEarly>>,
     <<StatPoint, LatencyEarly>>, <<LatencyEarly, LatencyNext>>}

TraceInit ==
    /\ Init
    /\ cycles = 0

\* one analyze cycle of the orchestrator
TraceAnalyze ==
    \E c \in TraceBatches :
        LET results == run_agents(c, <<>>, now)
            s == synthesize(results, kg, now)
        IN /\ fn_args = <<>>
           /\ cycles < MaxCycles
           /\ ~s.raised
           /\ cycles' = cycles + 1
           /\ cur' = c
           /\ agent_results' = results
           /\ kg' = s.kg
           /\ final' = WithGraph(s.result, s.kg)
           /\ UNCHANGED <<pc, hist, failing, prev, now, api_vars, alt_vars,
                          loop_vars, fn_vars>>

\* trace_root_cause(anomaly_id) is called
TraceCall ==
    \E id \in NodeIds(kg) :
        /\ fn_args = <<>>
        /\ fn_args' = [anomaly_id |-> id]
        /\ fn_result' = [status |-> "tracing", path |-> <<id>>]
        /\ UNCHANGED <<kg, now, cycle_vars, api_vars, alt_vars, loop_vars>>

Current == fn_result.path[Len(fn_result.path)]

NoRepeat(path) == \A i, j \in 1..Len(path) : path[i] = path[j] => i = j

\* further_trace = self.trace_root_cause(earliest['anomaly_id']); a trace
\* that has come back to an anomaly it has been at goes round for good and
\* is followed no further
TraceRecurse ==
    /\ fn_result # <<>>
    /\ fn_result.status = "tracing"
    /\ NoRepeat(fn_result.path)
    /\ \E p \in earliest_predecessors(kg, Current) :
          fn_result' = [fn_result EXCEPT !.path = Append(fn_result.path, p)]
    /\ UNCHANGED <<fn_args, kg, now, cycle_vars, api_vars, alt_vars, loop_vars>>

\* if not causal_predecessors: return {'is_root_cause': True, ...}
TraceReturns ==
    /\ fn_result # <<>>
    /\ fn_result.status = "tracing"
    /\ causal_predecessors(kg, Current) = {}
    /\ fn_result' = [fn_result EXCEPT !.status = "returned"]
    /\ UNCHANGED <<fn_args, kg, now, cycle_vars, api_vars, alt_vars, loop_vars>>

TraceNext == TraceAnalyze \/ TraceCall \/ TraceRecurse \/ TraceReturns

SpecTrace == TraceInit /\ [][TraceNext]_vars

\* the nodes from which id is reached over one or more causal edges
RECURSIVE CausalAncestors(_, _, _)
CausalAncestors(g, frontier, n) ==
    IF n = 0 THEN {}
    ELSE LET before == UNION {causal_predecessors(g, v) : v \in frontier}
         IN  before \cup CausalAncestors(g, before, n - 1)

\* C28: on every graph the synthesize cycles can build, the causal edges form
\* no cycle and trace_root_cause never comes back to an anomaly it has
\* already been at, so that it returns
C28_TraceTerminates ==
    /\ \A id \in NodeIds(kg) :
          id \notin CausalAncestors(kg, {id}, Cardinality(NodeIds(kg)))
    /\ (fn_result # <<>>) => NoRepeat(fn_result.path)

\* two cycles have published the same two anomaly ids, and a trace is under
\* way on the graph they left
C28_Witness ==
    /\ cycles = 2
    /\ Cardinality(NodeIds(kg)) = 2
    /\ fn_result # <<>>
    /\ Len(fn_result.path) >= 2
    /\ \E id \in NodeIds(kg) : causal_predecessors(kg, id) # {}

\* ---------------------------------------------------------------------------
\* KnowledgeGraphManager.find_similar_patterns
\* ---------------------------------------------------------------------------

\* knowledge_graph.similarity_threshold, 0.8 by default
similarity_threshold == Float(4, 5)

\* _calculate_signature_similarity: the weighted matches, summed as floats
calculate_signature_similarity(sig1, sig2) ==
    LET s0 == Float(0, 1)
        s1 == IF sig1.source = sig2.source THEN FloatAdd(s0, Float(1, 5)) ELSE s0
        s2 == IF sig1.metric = sig2.metric THEN FloatAdd(s1, Float(1, 5)) ELSE s1
        s3 == IF sig1.pattern_type = sig2.pattern_type
              THEN FloatAdd(s2, Float(3, 10)) ELSE s2
        mag1 == sig1.magnitude
        mag2 == sig2.magnitude
    IN  IF mag1 > 0 /\ mag2 > 0
        THEN FloatAdd(s3, FloatMul(Float(3, 10),
                                   Float(Min(mag1, mag2), Max(mag1, mag2))))
        ELSE s3

\* similarities.sort(key=similarity, reverse=True): stable, descending
RECURSIVE InsertBySimilarity(_, _)
InsertBySimilarity(s, x) ==
    IF s = <<>> THEN <<x>>
    ELSE IF FracGE(s[Len(s)].similarity, x.similarity) THEN Append(s, x)
    ELSE Append(InsertBySimilarity(SubSeq(s, 1, Len(s) - 1), x), s[Len(s)])

RECURSIVE SortBySimilarity(_)
SortBySimilarity(s) ==
    IF s = <<>> THEN <<>>
    ELSE InsertBySimilarity(SortBySimilarity(SubSeq(s, 1, Len(s) - 1)), s[Len(s)])

\* find_similar_patterns; self.signatures lists its keys in the order of
\* node_timestamps, both being written and deleted together
find_similar_patterns(g, anomaly_id, top_k) ==
    IF anomaly_id \notin DOMAIN g.signatures THEN <<>>
    ELSE LET ids == [i \in 1..Len(g.node_timestamps) |-> g.node_timestamps[i][1]]
             others == SelectSeq(ids, LAMBDA other_id :
                          /\ other_id # anomaly_id
                          /\ FracGE(calculate_signature_similarity(
                                        g.signatures[anomaly_id],
                                        g.signatures[other_id]),
                                    similarity_threshold))
             similarities ==
                 SortBySimilarity(
                     [i \in 1..Len(others) |->
                         [anomaly_id |-> others[i],
                          similarity |-> calculate_signature_similarity(
                                             g.signatures[anomaly_id],
                                             g.signatures[others[i]]),
                          signature  |-> g.signatures[others[i]]]])
         IN  SubSeq(similarities, 1, Min(top_k, Len(similarities)))

\* ---------------------------------------------------------------------------
\* Specification SpecSimilar: analyze cycles, then one similarity search
\* ---------------------------------------------------------------------------

MaxTopK == 2

FindSimilar ==
    \E id \in NodeIds(kg), top_k \in 1..MaxTopK :
        /\ fn_args = <<>>
        /\ fn_args' = [anomaly_id |-> id, top_k |-> top_k]
        /\ fn_result' = [similar |-> find_similar_patterns(kg, id, top_k)]
        /\ UNCHANGED <<kg, now, cycle_vars, api_vars, alt_vars, loop_vars>>

SimilarNext == TraceAnalyze \/ FindSimilar

SpecSimilar == TraceInit /\ [][SimilarNext]_vars

SimilarSearched == fn_result # <<>>

\* the other published anomalies with the source and the metric of id
SameSourceAndMetric(id) ==
    {o \in NodeIds(kg) \ {id} :
        /\ kg.nodes[o].source = kg.nodes[id].source
        /\ kg.nodes[o].metric = kg.nodes[id].metric}

\* C29: on coordinator-published nodes find_similar_patterns on an anomaly
\* returns the other anomaly of the same source and metric under the default
\* threshold 0.8; it never returns the queried id, returns at most top_k
\* entries, each of similarity >= the threshold, in descending order
C29_SimilarFound ==
    SimilarSearched =>
        LET r == fn_result.similar
            found == {r[i].anomaly_id : i \in 1..Len(r)}
        IN  /\ (Cardinality(SameSourceAndMetric(fn_args.anomaly_id)) <= fn_args.top_k
                   => SameSourceAndMetric(fn_args.anomaly_id) \subseteq found)
            /\ fn_args.anomaly_id \notin found
            /\ Len(r) <= fn_args.top_k
            /\ \A i \in 1..Len(r) : FracGE(r[i].similarity, similarity_threshold)
            /\ \A i \in 1..(Len(r) - 1) : FracGE(r[i].similarity, r[i + 1].similarity)

\* two readings of sensor/latency were published and one was searched for,
\* with nothing found
C29_Witness ==
    /\ SimilarSearched
    /\ SameSourceAndMetric(fn_args.anomaly_id) # {}
    /\ fn_result.similar = <<>>

\* ---------------------------------------------------------------------------
\* Reachability of the divergence classes (under SpecOI)
\* ---------------------------------------------------------------------------

\* the call hands detect every pair of a price change from PriceChanges and
\* an OI change from OIChanges
CoversGrid ==
    /\ Len(fn_args.price_changes) = Len(fn_args.oi_changes)
    /\ \A p \in PriceChanges, o \in OIChanges :
          \E i \in 1..Len(fn_args.price_changes) :
              fn_args.price_changes[i] = p /\ fn_args.oi_changes[i] = o

KindsDetected == {fn_result.detections[k].kind : k \in 1..Len(fn_result.detections)}

\* C30: no divergence class is shadowed under the default thresholds: over
\* pairs reaching beyond every threshold on both sides, each of the five
\* classes is what OIDivergenceDetector.detect makes of some pair
C30_NoClassShadowed ==
    (OIDetected /\ fn_args.kind = "divergence" /\ CoversGrid) =>
        \A class \in Range(ClassOrder) : class \in KindsDetected

\* the pairs were classified, pairs with a price change below -2% and an OI
\* change above 5% among them, and none came out as bearish_continuation
C30_Witness ==
    /\ OIDetected
    /\ fn_args.kind = "divergence"
    /\ CoversGrid
    /\ \E i \in 1..Len(fn_args.price_changes) :
          ClassMatches("bearish_continuation", fn_args.price_changes[i],
                       fn_args.oi_changes[i])
    /\ "bearish_continuation" \notin KindsDetected
    /\ Cardinality(KindsDetected) = 4

====
